---- MODULE Spec2Model ----
(***************************************************************************)
(* The package-linking engine of pnpm: tree construction and peer          *)
(* resolution (link/resolvePeers) and the filesystem linker (link/index);  *)
(* and the uninstall command (api/uninstall).                              *)
(*                                                                         *)
(* Strings of the program that are taken apart by the code (package names, *)
(* versions, version ranges) are sequences of one-character strings;       *)
(* filesystem paths are sequences of path segments; a keypath id, the      *)
(* '/'-join of a keypath, is the keypath itself (package ids hold no       *)
(* separator that could make two joins collide).                           *)
(***************************************************************************)
EXTENDS Integers, Sequences, FiniteSets, TLC

VARIABLES
    pkgsMap,        \* LinkedPackagesMap: id -> LinkedPackage (the installed packages)
    topPkgIds,      \* the root ids handed to resolvePeers
    pc,             \* position of the running call
    stack,          \* pending createTree invocations (innermost first)
    treeMap,        \* keypath id -> DependencyTree
    pkgsToLink,     \* ResolvedDependencyTreeMap, as its entries in key order
    warnings,       \* what logger.warn was called with, in order
    installedPkgs,  \* link's input: id -> InstalledPackage
    topPkgs,        \* link's input: the top packages, each with isInstallable
    opts,           \* link's options
    run,            \* how many times link was called
    fetching,       \* id -> state of the package's fetchingFiles promise
    tasks,          \* the linking tasks of this call, in creation order
    activeCount,    \* limitLinking's count of running tasks
    disk,           \* path -> what the project's module tree holds there
    storeGen,       \* id -> generation of the package's files in the store
    sawFresh,       \* a fetchingFiles promise of this call resolved to true
    didLink,        \* a linkDir of this call has completed
    infoLog,        \* hardlinked locations logger.info reported as relinked
    faults,         \* filesystem operations that failed so far
    folderPeers,    \* createPeersFolderName's argument: the peers' tree nodes
    folderName,     \* what it returned, once it has
    uninstallPc,    \* position of uninstallCmd
    pkgsToUninstall, \* uninstallCmd's argument: the names to remove
    saveType,       \* getSaveType(opts): the dependency type to save to, or none
    ctx,            \* the PnpmContext getContext returned
    lockOwner,      \* who holds the lock of the store
    projectFiles,   \* package.json, shrinkwrap file and installed packages
    newShr,         \* the pruned shrinkwrap
    steps           \* the steps of uninstallInContext that completed, in order

treeVars == <<pkgsMap, topPkgIds, stack, treeMap, pkgsToLink, warnings>>

linkVars == <<installedPkgs, topPkgs, opts, run, fetching, tasks, activeCount,
              disk, storeGen, sawFresh, didLink, infoLog, faults>>

folderVars == <<folderPeers, folderName>>

uninstallVars == <<uninstallPc, pkgsToUninstall, saveType, ctx, lockOwner,
                   projectFiles, newShr, steps>>

vars == <<pc, treeVars, linkVars, folderVars, uninstallVars>>

(***************************************************************************)
(* The packages of the model.  A package id determines its manifest name   *)
(* and version, as a registry id does.                                     *)
(***************************************************************************)
AllIds == {"a1", "a2", "a3", "b1", "c1"}

IdOrder == <<"a1", "a2", "a3", "b1", "c1">>

\* The packages of a project with many dependencies: l01, l02, ...
MaxLeaves == 17

DigitChar == <<"0", "1", "2", "3", "4", "5", "6", "7", "8", "9">>

LeafName(n) == <<"l", DigitChar[(n \div 10) + 1], DigitChar[(n % 10) + 1]>>

LeafId(n) == "l" \o DigitChar[(n \div 10) + 1] \o DigitChar[(n % 10) + 1]

LeafIds == { LeafId(n) : n \in 1..MaxLeaves }

PkgName(id) ==
    CASE id \in LeafIds -> LeafName(CHOOSE n \in 1..MaxLeaves : LeafId(n) = id)
      [] id = "a1" -> <<"a">>
      [] id = "a2" -> <<"a">>
      [] id = "a3" -> <<"a">>
      [] id = "b1" -> <<"b">>
      [] OTHER     -> <<"s", "/", "c">>

PkgVersion(id) ==
    IF id = "a2" THEN <<"2", ".", "0", ".", "0">> ELSE <<"1", ".", "0", ".", "0">>

BaseNodeModules == <<"project", "node_modules">>

\* Sequence helpers
RECURSIVE SeqOfSet(_, _)
SeqOfSet(order, S) ==
    IF order = <<>> THEN <<>>
    ELSE (IF Head(order) \in S THEN <<Head(order)>> ELSE <<>>) \o SeqOfSet(Tail(order), S)

Range(s) == { s[i] : i \in 1..Len(s) }

RECURSIVE FlatSeq(_)
FlatSeq(ss) == IF ss = <<>> THEN <<>> ELSE Head(ss) \o FlatSeq(Tail(ss))

RECURSIVE JoinChars(_)
JoinChars(cs) == IF cs = <<>> THEN "" ELSE Head(cs) \o JoinChars(Tail(cs))

\* path.join(p, s): the segments of s, split at '/', appended to p; empty
\* segments vanish.
RECURSIVE SplitSegs(_, _)
SplitSegs(cs, cur) ==
    IF cs = <<>> THEN (IF cur = "" THEN <<>> ELSE <<cur>>)
    ELSE IF Head(cs) = "/"
         THEN (IF cur = "" THEN <<>> ELSE <<cur>>) \o SplitSegs(Tail(cs), "")
         ELSE SplitSegs(Tail(cs), cur \o Head(cs))

PathJoin(p, cs) == p \o SplitSegs(cs, "")

\* An installed package, as the install hands it to link.  Its fetchingFiles
\* promise is named by the package id.
InstalledPackage(id, deps, peers) ==
    [ id            |-> id,
      pkg           |-> [ name |-> PkgName(id), version |-> PkgVersion(id),
                          peerDependencies |-> peers,
                          bundledDependencies |-> (id = "a2") ],
      fetchingFiles |-> id,
      path          |-> <<"store", id>>,
      dependencies  |-> deps ]

\* link/index.ts 40-47: the LinkedPackage built from an installed package
ToLinkedPackage(installedPkg, baseNodeModules) ==
    [ id            |-> installedPkg.id,
      pkg           |-> installedPkg.pkg,
      fetchingFiles |-> installedPkg.fetchingFiles,
      localLocation |-> baseNodeModules \o <<"." \o installedPkg.id>>,
      path          |-> installedPkg.path,
      dependencies  |-> installedPkg.dependencies ]

LinkedPackage(id, deps, peers) ==
    ToLinkedPackage(InstalledPackage(id, deps, peers), BaseNodeModules)

(***************************************************************************)
(* resolvePeers.ts: createTree                                             *)
(***************************************************************************)
\* A faulty getNonCircularDependencies: nothing is ever cut.
GetNonCircularDependenciesKeepAll(parentId, dependencyIds, keypath) ==
    dependencyIds

\* A faulty getNonCircularDependencies: a dependency is cut as soon as it is
\* an ancestor.
GetNonCircularDependenciesNoAncestor(parentId, dependencyIds, keypath) ==
    SelectSeq(dependencyIds, LAMBDA depId : depId \notin Range(keypath))

\* A faulty getNonCircularDependencies: the pair is looked up in the other
\* order.
GetNonCircularDependenciesReversed(parentId, dependencyIds, keypath) ==
    LET relations == { <<keypath[i], keypath[i + 1]>> : i \in 1..(Len(keypath) - 1) }
    IN  SelectSeq(dependencyIds, LAMBDA depId : <<depId, parentId>> \notin relations)

GetNonCircularDependencies(parentId, dependencyIds, keypath) ==
    LET relations == { <<keypath[i], keypath[i + 1]>> : i \in 1..(Len(keypath) - 1) }
        isCircular(pair) == pair \in relations
    IN  SelectSeq(dependencyIds, LAMBDA depId : ~isCircular(<<parentId, depId>>))

\* The DependencyTree record one invocation of createTree's callback builds.
\* Its children are the keypath ids the recursive call returns: the new
\* keypath extended by each non-circular dependency, in order.
TreeNode(pkg, keypath) ==
    LET nonCircularDeps == GetNonCircularDependencies(pkg.id, pkg.dependencies, keypath)
        newKeypath == Append(keypath, pkg.id)
    IN  [ id                     |-> pkg.id,
          name                   |-> pkg.pkg.name,
          version                |-> pkg.pkg.version,
          peerDependencies       |-> pkg.pkg.peerDependencies,
          hasBundledDependencies |-> pkg.pkg.bundledDependencies,
          fetchingFiles          |-> pkg.fetchingFiles,
          localLocation          |-> pkg.localLocation,
          path                   |-> pkg.path,
          keypathId              |-> newKeypath,
          children               |-> [ i \in 1..Len(nonCircularDeps) |->
                                          Append(newKeypath, nonCircularDeps[i]) ],
          depth                  |-> Len(keypath) ]


(***************************************************************************)
(* resolvePeers.ts: peer resolution and layout                             *)
(***************************************************************************)
\* UTF-16 code units of the characters in use (Array.prototype.sort's order)
CharCode(c) ==
    CASE c = "!" -> 33 [] c = "*" -> 42 [] c = "+" -> 43 [] c = "." -> 46
      [] c = "/" -> 47 [] c = "0" -> 48 [] c = "1" -> 49 [] c = "2" -> 50
      [] c = "@" -> 64 [] c = "^" -> 94 [] c = "a" -> 97 [] c = "b" -> 98
      [] c = "c" -> 99 [] c = "s" -> 115 [] OTHER -> 122

RECURSIVE StrLess(_, _)
StrLess(s, t) ==
    IF t = <<>> THEN FALSE
    ELSE IF s = <<>> THEN TRUE
    ELSE IF Head(s) = Head(t) THEN StrLess(Tail(s), Tail(t))
    ELSE CharCode(Head(s)) < CharCode(Head(t))

RECURSIVE InsertSorted(_, _)
InsertSorted(sorted, t) ==
    IF sorted = <<>> THEN <<t>>
    ELSE IF StrLess(t, Head(sorted)) THEN <<t>> \o sorted
    ELSE <<Head(sorted)>> \o InsertSorted(Tail(sorted), t)

RECURSIVE SortStrings(_)
SortStrings(ts) ==
    IF ts = <<>> THEN <<>>
    ELSE InsertSorted(SortStrings(SubSeq(ts, 1, Len(ts) - 1)), ts[Len(ts)])

\* String.prototype.replace with a string pattern: the first occurrence only
RECURSIVE ReplaceFirst(_, _, _)
ReplaceFirst(cs, from, to) ==
    IF cs = <<>> THEN <<>>
    ELSE IF Head(cs) = from THEN <<to>> \o Tail(cs)
    ELSE <<Head(cs)>> \o ReplaceFirst(Tail(cs), from, to)

RECURSIVE JoinWith(_, _)
JoinWith(ts, sep) ==
    IF ts = <<>> THEN <<>>
    ELSE IF Len(ts) = 1 THEN ts[1]
    ELSE ts[1] \o <<sep>> \o JoinWith(Tail(ts), sep)

\* A faulty naming: the names are sorted before '/' is replaced
CreatePeersFolderNameSortFirst(peers) ==
    LET tokens == SortStrings([ i \in 1..Len(peers) |->
                      peers[i].name \o <<"@">> \o peers[i].version ])
    IN  JoinWith([ i \in 1..Len(tokens) |-> ReplaceFirst(tokens[i], "/", "!") ], "+")

CreatePeersFolderName(peers) ==
    JoinWith(SortStrings([ i \in 1..Len(peers) |->
                 ReplaceFirst(peers[i].name, "/", "!") \o <<"@">> \o peers[i].version ]),
             "+")

\* semver.satisfies for the versions and ranges of the model: "*", an exact
\* version, or a caret range of a version N.0.0 (every version is N.0.0)
Satisfies(version, range) ==
    IF range = <<"*">> THEN TRUE
    ELSE IF Head(range) = "^" THEN version[1] = range[2]
    ELSE version = range

\* R.fromPairs of [name, pkg] pairs: a later pair replaces an earlier one
ToPkgByName(pkgs) ==
    [ n \in { pkgs[i].name : i \in 1..Len(pkgs) } |->
        pkgs[CHOOSE i \in 1..Len(pkgs) :
                /\ pkgs[i].name = n
                /\ \A j \in (i + 1)..Len(pkgs) : pkgs[j].name # n] ]

\* Object.assign({}, base, over)
Assign(base, over) == over @@ base

\* R.props(keys, map)
Props(keys, map) == [ i \in 1..Len(keys) |-> map[keys[i]] ]

\* A faulty resolvePeers: a peer whose version is outside the range is dropped.
ResolvePeersStrict(peerDependencies, pkgId, parentPkgs) ==
    LET one(p) ==
            IF p[1] \notin DOMAIN parentPkgs
            THEN [ peers |-> <<>>,
                   warnings |-> << [ kind |-> "none", pkgId |-> pkgId,
                                     peerName |-> p[1], range |-> p[2] ] >> ]
            ELSE IF ~Satisfies(parentPkgs[p[1]].version, p[2])
            THEN [ peers |-> <<>>,
                   warnings |-> << [ kind |-> "version", pkgId |-> pkgId,
                                     peerName |-> p[1], range |-> p[2] ] >> ]
            ELSE [ peers |-> << parentPkgs[p[1]].keypathId >>, warnings |-> <<>> ]
        each == [ i \in 1..Len(peerDependencies) |-> one(peerDependencies[i]) ]
    IN  [ peers    |-> FlatSeq([ i \in 1..Len(each) |-> each[i].peers ]),
          warnings |-> FlatSeq([ i \in 1..Len(each) |-> each[i].warnings ]) ]

\* resolvePeers: the resolved keypath ids (null results filtered out) and the
\* warnings logged on the way
ResolvePeers(peerDependencies, pkgId, parentPkgs) ==
    LET one(p) ==
            IF p[1] \notin DOMAIN parentPkgs
            THEN [ peers |-> <<>>,
                   warnings |-> << [ kind |-> "none", pkgId |-> pkgId,
                                     peerName |-> p[1], range |-> p[2] ] >> ]
            ELSE [ peers |-> << parentPkgs[p[1]].keypathId >>,
                   warnings |->
                       IF ~Satisfies(parentPkgs[p[1]].version, p[2])
                       THEN << [ kind |-> "version", pkgId |-> pkgId,
                                 peerName |-> p[1], range |-> p[2] ] >>
                       ELSE <<>> ]
        each == [ i \in 1..Len(peerDependencies) |-> one(peerDependencies[i]) ]
    IN  [ peers    |-> FlatSeq([ i \in 1..Len(each) |-> each[i].peers ]),
          warnings |-> FlatSeq([ i \in 1..Len(each) |-> each[i].warnings ]) ]

\* An absent path (undefined)
NoPath == <<>>

\* R.merge on maps kept as entry sequences: the keys of a in order, with b's
\* value where b has the key, then b's other keys
MergeEntries(a, b) ==
    LET bkeys == { b[j].key : j \in 1..Len(b) }
        akeys == { a[i].key : i \in 1..Len(a) }
        bval(k) == b[CHOOSE j \in 1..Len(b) : b[j].key = k /\
                        \A l \in (j + 1)..Len(b) : b[l].key # k]
    IN  [ i \in 1..Len(a) |-> IF a[i].key \in bkeys THEN bval(a[i].key) ELSE a[i] ]
        \o SelectSeq(b, LAMBDA e : e.key \notin akeys)

RECURSIVE MergeAll(_, _)
MergeAll(acc, list) ==
    IF list = <<>> THEN acc ELSE MergeAll(MergeEntries(acc, Head(list)), Tail(list))

\* A faulty scope overlay: the node itself is laid over its children.
NewParentPkgsSelfLast(pkgNode, parentPkgs, tm) ==
    Assign(Assign(parentPkgs, ToPkgByName(Props(pkgNode.children, tm))),
           ToPkgByName(<<pkgNode>>))

\* resolvePeersOfNode 88-91: the scope of a node and of its children
NewParentPkgs(pkgNode, parentPkgs, tm) ==
    Assign(Assign(parentPkgs, ToPkgByName(<<pkgNode>>)),
           ToPkgByName(Props(pkgNode.children, tm)))

\* resolvePeersOfNode 93-113: the resolved node
\* A faulty layout: the peer module directory only when a peer was resolved
PeerModulesIfResolved(pkgNode, resolvedPeers, tm) ==
    IF resolvedPeers # <<>>
    THEN PathJoin(pkgNode.localLocation,
                  CreatePeersFolderName(Props(resolvedPeers, tm)))
             \o <<"node_modules">>
    ELSE NoPath

\* resolvePeersOfNode 96-98
PeerModules(pkgNode, resolvedPeers, tm) ==
    IF pkgNode.peerDependencies # <<>>
    THEN PathJoin(pkgNode.localLocation,
                  CreatePeersFolderName(Props(resolvedPeers, tm)))
             \o <<"node_modules">>
    ELSE NoPath

ResolvedNode(pkgNode, newParentPkgs, tm) ==
    LET resolvedPeers == ResolvePeers(pkgNode.peerDependencies, pkgNode.id, newParentPkgs).peers
        modules == pkgNode.localLocation \o <<"node_modules">>
        peerModules == PeerModules(pkgNode, resolvedPeers, tm)
        hardlinkedLocation ==
            PathJoin(IF peerModules # NoPath THEN peerModules ELSE modules, pkgNode.name)
    IN  [ name                   |-> pkgNode.name,
          hasBundledDependencies |-> pkgNode.hasBundledDependencies,
          fetchingFiles          |-> pkgNode.fetchingFiles,
          path                   |-> pkgNode.path,
          peerModules            |-> peerModules,
          modules                |-> modules,
          hardlinkedLocation     |-> hardlinkedLocation,
          resolvedPeers          |-> resolvedPeers,
          children               |-> pkgNode.children,
          depth                  |-> pkgNode.depth,
          id                     |-> pkgNode.id ]

\* resolvePeersOfNode: the entries of the node and of its descendants, and the
\* warnings logged, in call order
RECURSIVE ResolvePeersOfNode(_, _, _)
ResolvePeersOfNode(keypathId, parentPkgs, tm) ==
    LET pkgNode == tm[keypathId]
        newParentPkgs == NewParentPkgs(pkgNode, parentPkgs, tm)
        own == ResolvePeers(pkgNode.peerDependencies, pkgNode.id, newParentPkgs)
        sub == [ i \in 1..Len(pkgNode.children) |->
                   ResolvePeersOfNode(pkgNode.children[i], newParentPkgs, tm) ]
    IN  [ entries  |-> MergeAll(<< [ key |-> keypathId,
                                     node |-> ResolvedNode(pkgNode, newParentPkgs, tm) ] >>,
                                [ i \in 1..Len(sub) |-> sub[i].entries ]),
          warnings |-> own.warnings \o FlatSeq([ i \in 1..Len(sub) |-> sub[i].warnings ]) ]

\* resolvePeers.ts default export, after createTree: the resolved map of the
\* whole tree
ResolveTree(rootNodeIds, tm) ==
    LET pkgsByName == ToPkgByName(Props(rootNodeIds, tm))
        per == [ i \in 1..Len(rootNodeIds) |->
                   ResolvePeersOfNode(rootNodeIds[i], pkgsByName, tm) ]
    IN  [ entries  |-> MergeAll(<<>>, [ i \in 1..Len(per) |-> per[i].entries ]),
          warnings |-> FlatSeq([ i \in 1..Len(per) |-> per[i].warnings ]) ]

(***************************************************************************)
(* link/index.ts: the lists link works through                             *)
(***************************************************************************)
\* pLimit(16)
LimitLinking == 16

EntryOf(entries, k) == entries[CHOOSE i \in DOMAIN entries : entries[i].key = k]

NodeOf(k) == EntryOf(pkgsToLink, k).node

\* A faulty sort: the deepest nodes first
SortByDepthDescending(entries) ==
    FlatSeq([ d \in 1..Len(entries) |->
                SelectSeq(entries, LAMBDA e : e.node.depth = Len(entries) - d) ])

\* R.values(pkgsToLink).sort((a, b) => a.depth - b.depth); the sort keeps the
\* order of equal depths
SortByDepth(entries) ==
    FlatSeq([ d \in 1..Len(entries) |->
                SelectSeq(entries, LAMBDA e : e.node.depth = d - 1) ])

\* R.uniqBy: the first entry of each value of F
RECURSIVE UniqBy(_, _, _)
UniqBy(F(_), seq, seen) ==
    IF seq = <<>> THEN <<>>
    ELSE IF F(Head(seq)) \in seen THEN UniqBy(F, Tail(seq), seen)
    ELSE <<Head(seq)>> \o UniqBy(F, Tail(seq), seen \cup {F(Head(seq))})

RECURSIVE Keys(_)
Keys(entries) ==
    IF entries = <<>> THEN <<>> ELSE <<Head(entries).key>> \o Keys(Tail(entries))

FlatResolvedDeps(entries) == SortByDepth(entries)

\* A faulty deps: one entry per node, not per hardlinked location.
DepsPerNode(entries) == Keys(FlatResolvedDeps(entries))

\* link 53: the nodes phase 1 and phase 3 work on
Deps(entries) ==
    Keys(UniqBy(LAMBDA e : e.node.hardlinkedLocation, FlatResolvedDeps(entries), {}))

\* link 57: the nodes phase 2 works on
DepsByModules(entries) ==
    Keys(UniqBy(LAMBDA e : e.node.modules, FlatResolvedDeps(entries), {}))

\* link 63: the root nodes phase 4 works on
RootKeys(entries) ==
    Keys(SelectSeq(FlatResolvedDeps(entries), LAMBDA e : e.node.depth = 0))

PhaseKeys(n, entries) ==
    IF n = 2 THEN DepsByModules(entries) ELSE Deps(entries)

(***************************************************************************)
(* link/index.ts: the linking tasks.  A task is the call of linkPkg,       *)
(* linkIndependentModules or linkModules for one node, wrapped by           *)
(* limitLinking (phases 1 to 3), or one step of link's own tail (phases 4   *)
(* and 5).  pc is the await the task is at; pend are the operations of a    *)
(* Promise.all that have not completed.                                     *)
(***************************************************************************)
NewTask(n, k) == [ phase |-> n, key |-> k, pc |-> "queued", pend |-> {} ]

PhaseNo(p) ==
    CASE p = "phase1" -> 1 [] p = "phase2" -> 2 [] p = "phase3" -> 3
      [] p = "phase4" -> 4 [] p = "phase5" -> 5 [] OTHER -> 0

PhasePc(n) ==
    CASE n = 1 -> "phase1" [] n = 2 -> "phase2" [] n = 3 -> "phase3"
      [] n = 4 -> "phase4" [] OTHER -> "phase5"

Settled(t) == t.pc \in {"done", "failed"}

\* A faulty linkPkg that does not look at opts.force
AfterFetchNoForce(t, newlyFetched, force) ==
    IF newlyFetched = "rejected" THEN [t EXCEPT !.pc = "failed"]
    ELSE IF newlyFetched = "fresh" THEN [t EXCEPT !.pc = "linkDir"]
    ELSE [t EXCEPT !.pc = "exists"]

\* linkPkg 114-117, once fetchingFiles has settled
AfterFetch(t, newlyFetched, force) ==
    IF newlyFetched = "rejected" THEN [t EXCEPT !.pc = "failed"]
    ELSE IF newlyFetched = "fresh" \/ force THEN [t EXCEPT !.pc = "linkDir"]
    ELSE [t EXCEPT !.pc = "exists"]

\* A task's function from its call to its first wait on something outside
RunTask(t, fs) ==
    LET node == NodeOf(t.key)
    IN  CASE t.phase = 1 ->
               IF fs[node.fetchingFiles] = "pending" THEN [t EXCEPT !.pc = "fetching"]
               ELSE AfterFetch(t, fs[node.fetchingFiles], opts.force)
          [] t.phase = 2 ->
               IF node.children = <<>> THEN [t EXCEPT !.pc = "done"]
               ELSE [t EXCEPT !.pc = "symlinks", !.pend = DOMAIN node.children]
          [] t.phase = 3 ->
               IF node.resolvedPeers = <<>> THEN [t EXCEPT !.pc = "bins1"]
               ELSE [t EXCEPT !.pc = "symlinks", !.pend = DOMAIN node.resolvedPeers]
          [] t.phase = 4 -> [t EXCEPT !.pc = "symlinks", !.pend = {1}]
          [] OTHER -> [t EXCEPT !.pc = "bins1"]

\* A faulty limiter: every task is run at once.
RECURSIVE DrainUnlimited(_, _, _)
DrainUnlimited(ts, active, fs) ==
    LET queued == { i \in DOMAIN ts : ts[i].pc = "queued" }
    IN  IF queued = {}
        THEN [ tasks |-> ts, active |-> active ]
        ELSE LET i == CHOOSE i \in queued : \A j \in queued : i <= j
                 t == RunTask(ts[i], fs)
             IN  DrainUnlimited([ts EXCEPT ![i] = t],
                                IF Settled(t) THEN active ELSE active + 1, fs)

\* A faulty limiter: it runs the first LimitLinking tasks of a phase and
\* never takes a task from its queue.
RECURSIVE DrainFirstOnly(_, _, _)
DrainFirstOnly(ts, active, fs) ==
    LET queued == { i \in DOMAIN ts : ts[i].pc = "queued" }
    IN  IF queued = {}
        THEN [ tasks |-> ts, active |-> active ]
        ELSE LET i == CHOOSE i \in queued : \A j \in queued : i <= j
                 begun == { k \in DOMAIN ts : ts[k].phase = ts[i].phase /\ ts[k].pc # "queued" }
                 t == RunTask(ts[i], fs)
             IN  IF Cardinality(begun) >= LimitLinking
                 THEN [ tasks |-> ts, active |-> active ]
                 ELSE DrainFirstOnly([ts EXCEPT ![i] = t],
                                     IF Settled(t) THEN active ELSE active + 1, fs)

\* p-limit: queued tasks are run, first queued first, while fewer than
\* LimitLinking are running; a task that settles frees its place
RECURSIVE Drain(_, _, _)
Drain(ts, active, fs) ==
    LET queued == { i \in DOMAIN ts : ts[i].pc = "queued" }
    IN  IF queued = {} \/ active >= LimitLinking
        THEN [ tasks |-> ts, active |-> active ]
        ELSE LET i == CHOOSE i \in queued : \A j \in queued : i <= j
                 t == RunTask(ts[i], fs)
             IN  Drain([ts EXCEPT ![i] = t],
                       IF Settled(t) THEN active ELSE active + 1, fs)

PhaseTasks(ts, n) == { i \in DOMAIN ts : ts[i].phase = n }

\* A faulty wait: the phase counts as complete once one of its tasks is.
PhaseSettledAny(ts, n) ==
    \E i \in PhaseTasks(ts, n) : ts[i].pc = "done"

\* Promise.all of a phase's tasks has resolved
PhaseSettled(ts, n) ==
    \A i \in PhaseTasks(ts, n) : ts[i].pc = "done"

\* A faulty Promise.all that never rejects
PhaseRejectedNever(ts, n) == FALSE

PhaseRejected(ts, n) ==
    \E i \in PhaseTasks(ts, n) : ts[i].pc = "failed"

RECURSIVE NewTasks(_, _)
NewTasks(n, keys) ==
    IF keys = <<>> THEN <<>> ELSE <<NewTask(n, Head(keys))>> \o NewTasks(n, Tail(keys))

\* link 55-69: where link stands once the tasks are as in ts: a rejected
\* Promise.all (or await) rejects link; a resolved one lets it go on to the
\* next phase, whose tasks are created and run up to their first wait
RECURSIVE Continue(_, _, _, _)
Continue(ts, active, p, fs) ==
    LET n == PhaseNo(p)
        same == [ tasks |-> ts, active |-> active, pc |-> p ]
        roots == RootKeys(pkgsToLink)
        rootsDone == Cardinality(PhaseTasks(ts, 4))
    IN  IF n = 0 THEN same
        ELSE IF PhaseRejected(ts, n) THEN [ same EXCEPT !.pc = "failed" ]
        ELSE IF n \in {1, 2}
        THEN IF ~PhaseSettled(ts, n) THEN same
             ELSE LET d == Drain(ts \o NewTasks(n + 1, PhaseKeys(n + 1, pkgsToLink)),
                                 active, fs)
                  IN  Continue(d.tasks, d.active, PhasePc(n + 1), fs)
        ELSE IF n \in {3, 4}
        THEN IF ~PhaseSettled(ts, n) THEN same
             ELSE IF rootsDone < Len(roots)
             THEN [ same EXCEPT !.tasks = Append(ts, RunTask(NewTask(4, roots[rootsDone + 1]), fs)),
                                !.pc = "phase4" ]
             ELSE [ same EXCEPT !.tasks = Append(ts, RunTask(NewTask(5, <<>>), fs)),
                                !.pc = "phase5" ]
        ELSE IF PhaseSettled(ts, 5) THEN [ same EXCEPT !.pc = "returned" ] ELSE same

\* A task of phases 1 to 3 has settled: its place is freed, the next queued
\* task runs, and link goes on if it was waiting for this
AfterSettle(ts, active, p, fs, i) ==
    IF ts[i].phase <= 3
    THEN LET d == Drain(ts, active - 1, fs)
         IN  Continue(d.tasks, d.active, p, fs)
    ELSE Continue(ts, active, p, fs)

(***************************************************************************)
(* The project's module tree                                               *)
(***************************************************************************)
DirEntry(id, gen) == [ kind |-> "dir", id |-> id, gen |-> gen, to |-> NoPath ]

SymlinkEntry(to) == [ kind |-> "symlink", id |-> "", gen |-> 0, to |-> to ]

IsDir(d, p) == p \in DOMAIN d /\ d[p].kind = "dir"

\* the directory a path leads to, through a symlink if it is one
Deref(d, p) ==
    IF p \in DOMAIN d /\ d[p].kind = "symlink" THEN d[p].to ELSE p

\* exists(<location>/package.json)
ManifestExists(d, loc) == IsDir(d, Deref(d, loc))

\* isSameFile: the manifest in the location has the inode of the store's
ManifestLinkedToStore(d, gens, loc, id) ==
    /\ IsDir(d, Deref(d, loc))
    /\ d[Deref(d, loc)].id = id
    /\ d[Deref(d, loc)].gen = gens[id]

\* A faulty linkDir: the files are copied, and get inodes of their own.
LinkDirCopy(d, gens, id, loc) == (Deref(d, loc) :> DirEntry(id, gens[id] + 1)) @@ d

\* linkDir(path, hardlinkedLocation): the store's files are hardlinked into
\* the location
LinkDir(d, gens, id, loc) == (Deref(d, loc) :> DirEntry(id, gens[id])) @@ d

\* symlinkDependencyTo: the destination and target of the symlink
SymlinkDependencyTo(dependency, dest) ==
    [ dest |-> PathJoin(dest, dependency.name), target |-> dependency.hardlinkedLocation ]

\* The symlink operation j of task t
SymlinkOf(t, j) ==
    LET node == NodeOf(t.key)
    IN  CASE t.phase = 2 -> SymlinkDependencyTo(NodeOf(node.children[j]), node.modules)
          [] t.phase = 3 -> SymlinkDependencyTo(NodeOf(node.resolvedPeers[j]), node.peerModules)
          [] OTHER       -> SymlinkDependencyTo(node, BaseNodeModules)

\* symlinkDir cannot replace a directory that is no symlink: it rejects
SymlinkRejected(d, dest) == IsDir(d, dest)

SymlinkDir(d, target, dest) == (dest :> SymlinkEntry(target)) @@ d

(***************************************************************************)
(* The inputs of the model                                                 *)
(***************************************************************************)
\* The most dependency edges of a package map
MaxEdges == 4

\* The most root packages
MaxRoots == 2

\* The deepest keypath the model follows.
MaxDepth == 14

\* link is not in use: resolvePeers is called on its own
LinkIdle ==
    /\ installedPkgs = <<>>
    /\ topPkgs = <<>>
    /\ opts = [ force |-> FALSE ]
    /\ run = 0
    /\ fetching = <<>>
    /\ tasks = <<>>
    /\ activeCount = 0
    /\ disk = <<>>
    /\ storeGen = <<>>
    /\ sawFresh = FALSE
    /\ didLink = FALSE
    /\ infoLog = {}
    /\ faults = 0

\* uninstallCmd has not been called
UninstallIdle ==
    /\ uninstallPc = "idle"
    /\ pkgsToUninstall = {}
    /\ saveType = ""
    /\ ctx = <<>>
    /\ lockOwner = "none"
    /\ projectFiles = <<>>
    /\ newShr = <<>>
    /\ steps = <<>>

\* createPeersFolderName has not been called
FolderIdle ==
    /\ folderPeers = <<>>
    /\ folderName = <<>>

DistinctSeqs(S, n) ==
    { s \in UNION { [1..k -> S] : k \in 1..n } :
        \A i, j \in DOMAIN s : i # j => s[i] # s[j] }

EdgeCount(depsOf) ==
    Cardinality({ e \in (DOMAIN depsOf) \X AllIds : e[2] \in depsOf[e[1]] })

DepsSeq(depsOf, id) == SeqOfSet(IdOrder, depsOf[id])

\* Package maps over three ids (two of one name), every dependency graph of
\* at most MaxEdges edges, self-dependencies and cycles included; at most one
\* id is not installed although packages may depend on it.
IdsTree == {"a1", "a2", "b1"}

InstalledSets(ids) == {ids} \cup { ids \ {x} : x \in ids }

InitTree ==
    /\ \E installed \in InstalledSets(IdsTree) :
       \E depsOf \in [installed -> SUBSET IdsTree] :
          /\ EdgeCount(depsOf) <= MaxEdges
          /\ pkgsMap = [ id \in installed |->
                           LinkedPackage(id, DepsSeq(depsOf, id), <<>>) ]
    /\ topPkgIds \in DistinctSeqs(IdsTree, MaxRoots)
    /\ pc = "createTree"
    /\ stack = << [ ids |-> topPkgIds, keypath |-> <<>> ] >>
    /\ treeMap = <<>>
    /\ pkgsToLink = <<>>
    /\ warnings = <<>>
    /\ LinkIdle
    /\ FolderIdle
    /\ UninstallIdle

(***************************************************************************)
(* resolvePeers.ts default export: createTree, one callback invocation a   *)
(* step, then the peer resolution of the finished tree                     *)
(***************************************************************************)
\* A faulty lookup: an id the map lacks is taken for a package without
\* dependencies.
LookupLenient(map, id) ==
    IF id \in DOMAIN map THEN <<map[id]>> ELSE <<LinkedPackage(id, <<>>, <<>>)>>

\* R.props(pkgIds, pkgsMap), for one id: the package, or nothing (undefined)
\* for an id the map lacks
Lookup(map, id) == IF id \in DOMAIN map THEN <<map[id]>> ELSE <<>>

Frames(ids, keypath) ==
    IF ids = <<>> THEN <<>> ELSE << [ ids |-> ids, keypath |-> keypath ] >>

\* One invocation of the callback createTree maps over its pkgIds.  R.props
\* yields undefined for an id the map lacks, and reading its id throws.
CreateTreeStep ==
    /\ pc = "createTree"
    /\ stack # <<>>
    /\ LET frame == Head(stack)
           id == Head(frame.ids)
           found == Lookup(pkgsMap, id)
       IN  /\ Len(frame.keypath) < MaxDepth
           /\ IF found = <<>>
              THEN /\ pc' = "threw"
                   /\ stack' = <<>>
                   /\ UNCHANGED treeMap
              ELSE LET pkg == found[1]
                       node == TreeNode(pkg, frame.keypath)
                       nonCircularDeps == GetNonCircularDependencies(
                                              id, pkg.dependencies, frame.keypath)
                   IN  /\ treeMap' = (node.keypathId :> node) @@ treeMap
                       /\ stack' = Frames(nonCircularDeps, node.keypathId)
                                     \o Frames(Tail(frame.ids), frame.keypath)
                                     \o Tail(stack)
                       /\ pc' = "createTree"
    /\ UNCHANGED <<pkgsMap, topPkgIds, pkgsToLink, warnings, linkVars>>
    /\ UNCHANGED folderVars
    /\ UNCHANGED uninstallVars

\* createTree has returned the root keypath ids
CreateTreeReturn ==
    /\ pc = "createTree"
    /\ stack = <<>>
    /\ pc' = "resolve"
    /\ UNCHANGED <<treeVars, linkVars>>
    /\ UNCHANGED folderVars
    /\ UNCHANGED uninstallVars

RootNodeIds == [ i \in 1..Len(topPkgIds) |-> <<topPkgIds[i]>> ]

\* resolvePeers.ts 44-46
ResolveStep ==
    /\ pc = "resolve"
    /\ LET res == ResolveTree(RootNodeIds, treeMap)
       IN  /\ pkgsToLink' = res.entries
           /\ warnings' = res.warnings
    /\ pc' = "resolved"
    /\ UNCHANGED <<pkgsMap, topPkgIds, stack, treeMap, linkVars>>
    /\ UNCHANGED folderVars
    /\ UNCHANGED uninstallVars

NextResolve == CreateTreeStep \/ CreateTreeReturn \/ ResolveStep

SpecTree == InitTree /\ [][NextResolve]_vars

\* The ids the roots reach along dependency edges
RECURSIVE ReachFrom(_, _)
ReachFrom(depsOf, S) ==
    LET T == S \cup UNION { depsOf[x] : x \in S \cap DOMAIN depsOf }
    IN  IF T = S THEN S ELSE ReachFrom(depsOf, T)

\* Package maps for peer resolution: every id installed, every dependency
\* graph of at most MaxPeerEdges edges, one package declaring at most
\* MaxPeers peers (in name order), each with a caret range.  A package the
\* roots do not reach has no dependencies and no peers (it would change
\* nothing).
MaxPeerEdges == 3

MaxPeers == 2

PeerNames == << <<"a">>, <<"b">>, <<"s", "/", "c">> >>

PeerRanges == { <<"^", "1", ".", "0", ".", "0">>, <<"^", "2", ".", "0", ".", "0">> }

PeerDecls ==
    { d \in UNION { [1..k -> (1..Len(PeerNames)) \X PeerRanges] : k \in 0..MaxPeers } :
        \A i, j \in DOMAIN d : i < j => d[i][1] < d[j][1] }

PeerDependencies(d) == [ i \in DOMAIN d |-> <<PeerNames[d[i][1]], d[i][2]>> ]

InitPeers ==
    /\ \E depsOf \in [IdsTree -> SUBSET IdsTree] :
       \E subject \in IdsTree :
       \E d \in PeerDecls :
          /\ EdgeCount(depsOf) <= MaxPeerEdges
          /\ d = <<>> => subject = "a1"
          /\ pkgsMap = [ id \in IdsTree |->
                           LinkedPackage(id, DepsSeq(depsOf, id),
                               IF id = subject THEN PeerDependencies(d) ELSE <<>>) ]
    /\ topPkgIds \in DistinctSeqs(IdsTree, MaxRoots)
    /\ \A id \in IdsTree \ ReachFrom([ x \in IdsTree |-> Range(pkgsMap[x].dependencies) ],
                                      Range(topPkgIds)) :
          /\ pkgsMap[id].dependencies = <<>>
          /\ pkgsMap[id].pkg.peerDependencies = <<>>
    /\ pc = "createTree"
    /\ stack = << [ ids |-> topPkgIds, keypath |-> <<>> ] >>
    /\ treeMap = <<>>
    /\ pkgsToLink = <<>>
    /\ warnings = <<>>
    /\ LinkIdle
    /\ FolderIdle
    /\ UninstallIdle

SpecPeers == InitPeers /\ [][NextResolve]_vars

(***************************************************************************)
(* link/index.ts: the link operation                                       *)
(***************************************************************************)
MaxRuns == 2

MaxFaults == 1

MaxRewrites == 1

\* A project: the dependencies and the peers its packages declare, and its
\* top packages
Project(ids, depsOf, peersOf, tops) ==
    [ installedPkgs |-> [ id \in ids |->
                            InstalledPackage(id,
                                IF id \in DOMAIN depsOf THEN depsOf[id] ELSE <<>>,
                                IF id \in DOMAIN peersOf THEN peersOf[id] ELSE <<>>) ],
      topPkgs |-> tops ]

TopPkg(id, isInstallable) == [ id |-> id, isInstallable |-> isInstallable ]

Caret1 == <<"^", "1", ".", "0", ".", "0">>

PeerOn(i) == << <<PeerNames[i], Caret1>> >>

NoneOf == <<>>

\* The projects linked: (1) two top packages whose b1 sees a different
\* package "a" of the same name and version, one from another source; (2) a
\* package depending on another version of itself; (3) a dependency cycle;
\* (4) a package that is its own peer; (5) a bundling top package and a peer
\* of a scoped package; (6) a top package that is not installable; (7) no
\* top package at all; (8) a dependency that is not among the installed
\* packages; (9) a top package that is not among them; (10) a peer that one
\* occurrence of a package resolves and another does not.
LinkProjects ==
    { Project({"a1", "a3", "b1", "c1"},
              "a1" :> <<"b1">> @@ "c1" :> <<"a3", "b1">>,
              "b1" :> PeerOn(1),
              << TopPkg("a1", TRUE), TopPkg("c1", TRUE) >>),
      Project({"a1", "a2"},
              "a1" :> <<"a2">>, NoneOf,
              << TopPkg("a1", TRUE) >>),
      Project({"a1", "b1"},
              "a1" :> <<"b1">> @@ "b1" :> <<"a1">>, NoneOf,
              << TopPkg("a1", TRUE) >>),
      Project({"b1"},
              NoneOf, "b1" :> PeerOn(2),
              << TopPkg("b1", TRUE) >>),
      Project({"a2", "b1", "c1"},
              "a2" :> <<"b1", "c1">>, "b1" :> PeerOn(3),
              << TopPkg("a2", TRUE) >>),
      Project({"a1", "b1"},
              NoneOf, NoneOf,
              << TopPkg("a1", TRUE), TopPkg("b1", FALSE) >>),
      Project({"a1"},
              NoneOf, NoneOf, <<>>),
      Project({"a1", "b1"},
              "a1" :> <<"b1">> @@ "b1" :> <<"a1", "c1">>, NoneOf,
              << TopPkg("a1", TRUE) >>),
      Project({"a1"},
              NoneOf, NoneOf,
              << TopPkg("a1", TRUE), TopPkg("b1", TRUE) >>),
      Project({"a1", "b1", "c1"},
              "a1" :> <<"b1", "c1">>, "b1" :> PeerOn(3),
              << TopPkg("a1", TRUE), TopPkg("b1", TRUE) >>) }

\* link 49: topPkgs.filter(pkg => pkg.isInstallable).map(pkg => pkg.id)
InstallableIds(tops) ==
    LET kept == SelectSeq(tops, LAMBDA pkg : pkg.isInstallable)
    IN  [ i \in DOMAIN kept |-> kept[i].id ]

\* link has not been called: nothing is built, the module tree is empty and
\* the store is as the packages were fetched into it
LinkNotCalled ==
    /\ opts = [ force |-> FALSE ]
    /\ run = 0
    /\ pc = "idle"
    /\ pkgsMap = <<>>
    /\ topPkgIds = <<>>
    /\ stack = <<>>
    /\ treeMap = <<>>
    /\ pkgsToLink = <<>>
    /\ warnings = <<>>
    /\ fetching = <<>>
    /\ tasks = <<>>
    /\ activeCount = 0
    /\ disk = <<>>
    /\ storeGen = [ id \in DOMAIN installedPkgs |-> 0 ]
    /\ sawFresh = FALSE
    /\ didLink = FALSE
    /\ infoLog = {}
    /\ faults = 0

\* Before link is called: the installed packages and the top packages of a
\* project, an empty module tree and an unchanged store
InitLink ==
    /\ \E project \in LinkProjects :
          /\ installedPkgs = project.installedPkgs
          /\ topPkgs = project.topPkgs
    /\ LinkNotCalled
    /\ FolderIdle
    /\ UninstallIdle

\* link is called, for the first time or again after it has returned
LinkCall ==
    /\ pc \in {"idle", "returned"}
    /\ run < MaxRuns
    /\ \E force \in BOOLEAN : opts' = [ force |-> force ]
    /\ run' = run + 1
    /\ pkgsMap' = [ id \in DOMAIN installedPkgs |->
                      ToLinkedPackage(installedPkgs[id], BaseNodeModules) ]
    /\ topPkgIds' = InstallableIds(topPkgs)
    /\ stack' = Frames(topPkgIds', <<>>)
    /\ treeMap' = <<>>
    /\ pkgsToLink' = <<>>
    /\ warnings' = <<>>
    /\ fetching' = [ id \in DOMAIN installedPkgs |-> "pending" ]
    /\ tasks' = <<>>
    /\ activeCount' = 0
    /\ sawFresh' = FALSE
    /\ didLink' = FALSE
    /\ infoLog' = {}
    /\ pc' = "createTree"
    /\ UNCHANGED <<installedPkgs, topPkgs, disk, storeGen, faults>>
    /\ UNCHANGED folderVars
    /\ UNCHANGED uninstallVars

Linking == pc \in {"phase1", "phase2", "phase3", "phase4", "phase5", "failed"}

\* The tasks, the limiter and link itself after a step
Proceed(c) ==
    /\ tasks' = c.tasks
    /\ activeCount' = c.active
    /\ pc' = c.pc
    /\ didLink' = (didLink \/ \E i \in DOMAIN c.tasks : c.tasks[i].pc = "linkDir")

\* Task i goes on as t
Step(i, t) ==
    LET ts == [tasks EXCEPT ![i] = t]
    IN  Proceed(IF Settled(t) THEN AfterSettle(ts, activeCount, pc, fetching, i)
                ELSE [ tasks |-> ts, active |-> activeCount, pc |-> pc ])

\* link 51-55: the lists are built and phase 1 is started
StartLinking ==
    /\ pc = "resolved"
    /\ run > 0
    /\ LET d == Drain(NewTasks(1, Deps(pkgsToLink)), 0, fetching)
       IN  Proceed(Continue(d.tasks, d.active, "phase1", fetching))
    /\ UNCHANGED <<treeVars, installedPkgs, topPkgs, opts, run, fetching, disk,
                   storeGen, sawFresh, infoLog, faults>>
    /\ UNCHANGED folderVars
    /\ UNCHANGED uninstallVars

\* linkPkg 112: the task waits for the fetchingFiles of the package, the one
\* its node's keypath ends with
Awaits(t, id) == t.pc = "fetching" /\ t.key[Len(t.key)] = id

Least(S) == IF S = {} THEN 0 ELSE CHOOSE x \in S : \A y \in S : x <= y

\* The tasks that wait for the package go on
RECURSIVE ResumeAll(_, _, _)
ResumeAll(ts, awaiting, newlyFetched) ==
    IF awaiting = {} THEN ts
    ELSE LET i == Least(awaiting)
         IN  ResumeAll([ts EXCEPT ![i] = AfterFetch(@, newlyFetched, opts.force)],
                       awaiting \ {i}, newlyFetched)

\* linkPkg 112: a package's fetchingFiles settles; every task waiting for it
\* goes on
FetchResolves(id, newlyFetched) ==
    /\ Linking
    /\ fetching[id] = "pending"
    /\ newlyFetched = "rejected" => faults < MaxFaults
    /\ LET awaiting == { i \in DOMAIN tasks : Awaits(tasks[i], id) }
           fs == [fetching EXCEPT ![id] = newlyFetched]
           ts == ResumeAll(tasks, awaiting, newlyFetched)
           d == Drain(ts, activeCount - Cardinality({ i \in awaiting : Settled(ts[i]) }), fs)
       IN  /\ awaiting # {}
           /\ fetching' = fs
           /\ Proceed(Continue(d.tasks, d.active, pc, fs))
    /\ sawFresh' = (sawFresh \/ newlyFetched = "fresh")
    /\ faults' = IF newlyFetched = "rejected" THEN faults + 1 ELSE faults
    /\ UNCHANGED <<treeVars, installedPkgs, topPkgs, opts, run, disk, storeGen, infoLog>>
    /\ UNCHANGED folderVars
    /\ UNCHANGED uninstallVars

\* linkPkg 115: exists(pkgJsonPath) has answered
ExistsDone(i) ==
    /\ Linking
    /\ tasks[i].pc = "exists"
    /\ Step(i, IF ManifestExists(disk, NodeOf(tasks[i].key).hardlinkedLocation)
                THEN [tasks[i] EXCEPT !.pc = "stat", !.pend = {1, 2}]
                ELSE [tasks[i] EXCEPT !.pc = "linkDir"])
    /\ UNCHANGED <<treeVars, installedPkgs, topPkgs, opts, run, fetching, disk,
                   storeGen, sawFresh, infoLog, faults>>
    /\ UNCHANGED folderVars
    /\ UNCHANGED uninstallVars

\* isSameFile: one of the two fs.stat calls has answered; after both,
\* pkgLinkedToStore compares the inodes
StatDone(i, j) ==
    /\ Linking
    /\ tasks[i].pc \in {"stat", "failed"}
    /\ j \in tasks[i].pend
    /\ LET node == NodeOf(tasks[i].key)
           same == ManifestLinkedToStore(disk, storeGen, node.hardlinkedLocation, node.id)
           rest == tasks[i].pend \ {j}
       IN  IF tasks[i].pc = "failed" \/ rest # {}
           THEN /\ tasks' = [tasks EXCEPT ![i].pend = rest]
                /\ UNCHANGED <<activeCount, pc, didLink, infoLog>>
           ELSE /\ Step(i, [tasks[i] EXCEPT !.pc = IF same THEN "done" ELSE "linkDir",
                                            !.pend = {}])
                /\ infoLog' = IF same THEN infoLog ELSE infoLog \cup {node.hardlinkedLocation}
    /\ UNCHANGED <<treeVars, installedPkgs, topPkgs, opts, run, fetching, disk,
                   storeGen, sawFresh, faults>>
    /\ UNCHANGED folderVars
    /\ UNCHANGED uninstallVars

\* linkPkg 116: linkDir has completed
LinkDirDone(i) ==
    /\ Linking
    /\ tasks[i].pc = "linkDir"
    /\ LET node == NodeOf(tasks[i].key)
       IN  disk' = LinkDir(disk, storeGen, node.id, node.hardlinkedLocation)
    /\ Step(i, [tasks[i] EXCEPT !.pc = "done"])
    /\ UNCHANGED <<treeVars, installedPkgs, topPkgs, opts, run, fetching,
                   storeGen, sawFresh, infoLog, faults>>
    /\ UNCHANGED folderVars
    /\ UNCHANGED uninstallVars

\* What a task does once the Promise.all of its symlinks has resolved
AfterSymlinks(t) == IF t.phase = 3 THEN "bins1" ELSE "done"

\* symlinkDependencyTo: symlink j of task i has completed or has been
\* rejected.  A rejection rejects the task at once; its other symlinks are
\* still made.
SymlinkDone(i, j) ==
    /\ Linking
    /\ tasks[i].phase \in {2, 3, 4}
    /\ tasks[i].pc \in {"symlinks", "failed"}
    /\ j \in tasks[i].pend
    /\ LET op == SymlinkOf(tasks[i], j)
           rest == tasks[i].pend \ {j}
       IN  IF SymlinkRejected(disk, op.dest)
           THEN /\ UNCHANGED disk
                /\ IF tasks[i].pc = "failed"
                   THEN /\ tasks' = [tasks EXCEPT ![i].pend = rest]
                        /\ UNCHANGED <<activeCount, pc, didLink>>
                   ELSE Step(i, [tasks[i] EXCEPT !.pc = "failed", !.pend = rest])
           ELSE /\ disk' = SymlinkDir(disk, op.target, op.dest)
                /\ IF tasks[i].pc = "failed"
                   THEN /\ tasks' = [tasks EXCEPT ![i].pend = rest]
                        /\ UNCHANGED <<activeCount, pc, didLink>>
                   ELSE Step(i, [tasks[i] EXCEPT
                                   !.pc = IF rest = {} THEN AfterSymlinks(tasks[i]) ELSE @,
                                   !.pend = rest])
    /\ UNCHANGED <<treeVars, installedPkgs, topPkgs, opts, run, fetching,
                   storeGen, sawFresh, infoLog, faults>>
    /\ UNCHANGED folderVars
    /\ UNCHANGED uninstallVars

\* linkModules 148-158 and link 66-67: what follows a linkBins
AfterBins(t) ==
    LET node == NodeOf(t.key)
    IN  IF t.phase = 5 THEN "done"
        ELSE IF t.pc = "bins1" /\ node.peerModules # NoPath THEN "bins2"
        ELSE IF t.pc \in {"bins1", "bins2"} /\ node.hasBundledDependencies THEN "bins3"
        ELSE "done"

\* a linkBins has completed
BinsDone(i) ==
    /\ Linking
    /\ tasks[i].pc \in {"bins1", "bins2", "bins3"}
    /\ Step(i, [tasks[i] EXCEPT !.pc = AfterBins(tasks[i])])
    /\ UNCHANGED <<treeVars, installedPkgs, topPkgs, opts, run, fetching, disk,
                   storeGen, sawFresh, infoLog, faults>>
    /\ UNCHANGED folderVars
    /\ UNCHANGED uninstallVars

\* A filesystem operation of task i is rejected by the system
OpFails(i) ==
    /\ Linking
    /\ faults < MaxFaults
    /\ tasks[i].pc \in {"stat", "linkDir", "symlinks", "bins1", "bins2", "bins3"}
    /\ faults' = faults + 1
    /\ Step(i, [tasks[i] EXCEPT !.pc = "failed", !.pend = @ \ {Least(@)}])
    /\ UNCHANGED <<treeVars, installedPkgs, topPkgs, opts, run, fetching, disk,
                   storeGen, sawFresh, infoLog>>
    /\ UNCHANGED folderVars
    /\ UNCHANGED uninstallVars

\* Another process rewrites a package in the store while a task is about to
\* compare inodes with it
StoreRewritten(id) ==
    /\ Linking
    /\ \A x \in DOMAIN storeGen : storeGen[x] < MaxRewrites
    /\ \E i \in DOMAIN tasks : /\ tasks[i].pc = "stat"
                                /\ tasks[i].pend = {1, 2}
                                /\ NodeOf(tasks[i].key).id = id
    /\ storeGen' = [storeGen EXCEPT ![id] = @ + 1]
    /\ UNCHANGED <<pc, treeVars, installedPkgs, topPkgs, opts, run, fetching, tasks,
                   activeCount, disk, sawFresh, didLink, infoLog, faults>>
    /\ UNCHANGED folderVars
    /\ UNCHANGED uninstallVars

NextLink ==
    \/ LinkCall
    \/ CreateTreeStep
    \/ CreateTreeReturn
    \/ ResolveStep
    \/ StartLinking
    \/ \E id \in DOMAIN fetching, v \in {"fresh", "cached", "rejected"} : FetchResolves(id, v)
    \/ \E i \in DOMAIN tasks : ExistsDone(i)
    \/ \E i \in DOMAIN tasks : \E j \in tasks[i].pend : StatDone(i, j)
    \/ \E i \in DOMAIN tasks : LinkDirDone(i)
    \/ \E i \in DOMAIN tasks : \E j \in tasks[i].pend : SymlinkDone(i, j)
    \/ \E i \in DOMAIN tasks : BinsDone(i)
    \/ \E i \in DOMAIN tasks : OpFails(i)
    \/ \E id \in DOMAIN storeGen : StoreRewritten(id)

SpecLink == InitLink /\ [][NextLink]_vars

(***************************************************************************)
(* link on a project with more dependencies than the limiter admits at     *)
(* once.  The dependencies are alike, so of the tasks that are in the same  *)
(* position only the first is followed, and of the operations a task has    *)
(* in progress only the first.  Nothing is rejected and the store is left   *)
(* alone here; SpecLink has the rejections.                                 *)
(***************************************************************************)
PoolProject ==
    Project({"a1"} \cup LeafIds,
            "a1" :> [ n \in 1..MaxLeaves |-> LeafId(n) ], NoneOf,
            << TopPkg("a1", TRUE) >>)

InitPool ==
    /\ installedPkgs = PoolProject.installedPkgs
    /\ topPkgs = PoolProject.topPkgs
    /\ LinkNotCalled
    /\ FolderIdle
    /\ UninstallIdle

Alike(i, k) ==
    /\ tasks[i].phase = tasks[k].phase
    /\ tasks[i].pc = tasks[k].pc
    /\ Cardinality(tasks[i].pend) = Cardinality(tasks[k].pend)
    /\ Len(tasks[i].key) = Len(tasks[k].key)

\* The dependencies were fetched together: all freshly, or all before
FetchedAlike(id, v) ==
    id \in LeafIds => \A other \in LeafIds : fetching[other] \in {"pending", v}

Representative(i) == \A k \in 1..(i - 1) : ~Alike(i, k)

FirstOf(i, j) == Representative(i) /\ j = Least(tasks[i].pend)

NextPool ==
    \/ LinkCall
    \/ CreateTreeStep
    \/ CreateTreeReturn
    \/ ResolveStep
    \/ StartLinking
    \/ \E id \in DOMAIN fetching, v \in {"fresh", "cached"} :
          /\ fetching[id] = "pending"
          /\ \E i \in DOMAIN tasks : Awaits(tasks[i], id) /\ Representative(i)
          /\ FetchedAlike(id, v)
          /\ FetchResolves(id, v)
    \/ \E i \in DOMAIN tasks : Representative(i) /\ ExistsDone(i)
    \/ \E i \in DOMAIN tasks : \E j \in tasks[i].pend : FirstOf(i, j) /\ StatDone(i, j)
    \/ \E i \in DOMAIN tasks : Representative(i) /\ LinkDirDone(i)
    \/ \E i \in DOMAIN tasks : \E j \in tasks[i].pend : FirstOf(i, j) /\ SymlinkDone(i, j)
    \/ \E i \in DOMAIN tasks : Representative(i) /\ BinsDone(i)

SpecPool == InitPool /\ [][NextPool]_vars

(***************************************************************************)
(* resolvePeers.ts createPeersFolderName, called on its own                *)
(***************************************************************************)
\* The most peers of a call
MaxFolderPeers == 3

FolderNames == << <<"a", ".", "b">>, <<"a", "/", "b">>, <<"c">>, <<"s", "/", "c">> >>

FolderVersions == { <<"1", ".", "0", ".", "0">>, <<"2", ".", "0", ".", "0">> }

\* The peers of a call are resolved for the keys of a peerDependencies
\* object, so no two have the same name
InitFolder ==
    /\ \E ns \in DistinctSeqs(DOMAIN FolderNames, MaxFolderPeers) \cup {<<>>} :
       \E vs \in [DOMAIN ns -> FolderVersions] :
          folderPeers = [ i \in DOMAIN ns |->
                            [ name |-> FolderNames[ns[i]], version |-> vs[i] ] ]
    /\ folderName = <<>>
    /\ pc = "idle"
    /\ pkgsMap = <<>>
    /\ topPkgIds = <<>>
    /\ stack = <<>>
    /\ treeMap = <<>>
    /\ pkgsToLink = <<>>
    /\ warnings = <<>>
    /\ LinkIdle
    /\ UninstallIdle

CreatePeersFolderNameCall ==
    /\ folderName = <<>>
    /\ folderName' = << CreatePeersFolderName(folderPeers) >>
    /\ UNCHANGED <<pc, treeVars, linkVars, folderPeers, uninstallVars>>

NextFolder == CreatePeersFolderNameCall

SpecFolder == InitFolder /\ [][NextFolder]_vars

(***************************************************************************)
(* api/uninstall.ts: uninstallCmd and uninstallInContext.  A manifest is   *)
(* the names under each of its dependency types; a shrinkwrap is the raw   *)
(* specs (name@version) of the project's dependencies and the packages     *)
(* they need.  lock, getContext, removeDeps and the shrinkwrap functions   *)
(* are modules of the repository that uninstall.ts calls: lock runs its    *)
(* callback once it holds the lock of the store and releases the lock when *)
(* the callback's promise has settled.                                     *)
(***************************************************************************)
\* The most names an uninstall is called with
MaxUninstall == 2

UninstallNames == { <<"a">>, <<"b">> }

DepTypes == {"dependencies", "devDependencies", "optionalDependencies"}

\* The raw spec of a dependency in the shrinkwrap
RawSpec(name) == name \o <<"@", "1", ".", "0", ".", "0">>

\* npa(depSpecRaw).name: what stands before the '@' of the version
RECURSIVE NpaName(_)
NpaName(raw) ==
    IF raw = <<>> \/ Head(raw) = "@" THEN <<>> ELSE <<Head(raw)>> \o NpaName(Tail(raw))

Manifest(deps, devDeps) ==
    [ dependencies |-> deps, devDependencies |-> devDeps, optionalDependencies |-> {} ]

\* isDependentOn 54-61
IsDependentOn(pkg, depName) == \E deptype \in DepTypes : depName \in pkg[deptype]

\* removeDeps: the manifest without the names under saveType
RemoveDeps(pkg, names, type) == [pkg EXCEPT ![type] = @ \ names]

\* uninstallInContext 42-47: the dependencies of the shrinkwrap the manifest
\* still names
KeptDependencies(shr, pkg) ==
    [shr EXCEPT !.dependencies = { raw \in @ : IsDependentOn(pkg, NpaName(raw)) }]

\* pruneShrinkwrap: the packages the dependencies need
PruneShrinkwrap(shr) ==
    [shr EXCEPT !.packages = { NpaName(raw) : raw \in shr.dependencies }]

\* removeOrphanPkgs: the installed packages the new shrinkwrap has no use for
\* are removed
RemoveOrphanPkgs(installed, privateShr, shr) ==
    installed \ (privateShr.packages \ shr.packages)

\* A faulty uninstallInContext that saves the shrinkwrap before it removes
\* the orphans
AwaitAfterSaveFirst(at) ==
    CASE at = "removeDeps"       -> "pruneShrinkwrap"
      [] at = "pruneShrinkwrap"  -> "saveShrinkwrap"
      [] at = "saveShrinkwrap"   -> "removeOrphanPkgs"
      [] OTHER                   -> "unlock"

\* uninstallInContext 41-50: the await that follows an await
AwaitAfter(at) ==
    CASE at = "removeDeps"       -> "pruneShrinkwrap"
      [] at = "pruneShrinkwrap"  -> "removeOrphanPkgs"
      [] at = "removeOrphanPkgs" -> "saveShrinkwrap"
      [] OTHER                   -> "unlock"

\* A project with its dependencies installed, with or without a package.json,
\* and a call of uninstallCmd; another process may hold the lock of the store
InitUninstall ==
    /\ \E deps, devDeps \in SUBSET UninstallNames :
       \E present \in BOOLEAN :
          LET shr == [ dependencies |-> { RawSpec(n) : n \in deps \cup devDeps },
                       packages     |-> deps \cup devDeps ]
          IN  projectFiles = [ packageJson |-> IF present THEN << Manifest(deps, devDeps) >>
                                               ELSE <<>>,
                               shrinkwrap  |-> shr,
                               privateShrinkwrap |-> shr,
                               installed   |-> deps \cup devDeps ]
    /\ pkgsToUninstall \in { S \in SUBSET UninstallNames :
                                S # {} /\ Cardinality(S) <= MaxUninstall }
    /\ saveType \in {"", "dependencies", "devDependencies"}
    /\ lockOwner \in {"none", "other"}
    /\ uninstallPc = "getContext"
    /\ ctx = <<>>
    /\ newShr = <<>>
    /\ steps = <<>>
    /\ pc = "idle"
    /\ pkgsMap = <<>>
    /\ topPkgIds = <<>>
    /\ stack = <<>>
    /\ treeMap = <<>>
    /\ pkgsToLink = <<>>
    /\ warnings = <<>>
    /\ LinkIdle
    /\ FolderIdle

\* What a completed step is remembered by
StepDone(what) == [ what |-> what, lockOwner |-> lockOwner ]

\* uninstallCmd 23-27: getContext has answered; without a package.json
\* uninstallCmd throws
GetContextDone ==
    /\ uninstallPc = "getContext"
    /\ ctx' = [ pkg               |-> projectFiles.packageJson,
                shrinkwrap        |-> projectFiles.shrinkwrap,
                privateShrinkwrap |-> projectFiles.privateShrinkwrap ]
    /\ uninstallPc' = IF projectFiles.packageJson = <<>> THEN "threw" ELSE "lock"
    /\ UNCHANGED <<pkgsToUninstall, saveType, lockOwner, projectFiles, newShr, steps>>
    /\ UNCHANGED <<pc, treeVars, linkVars, folderVars>>

\* uninstallCmd 30-34 and uninstallInContext 38-41: the lock is free, lock
\* takes it and calls uninstallInContext, which calls removeDeps if there is
\* a type to save to and returns at once if not
LockAcquired ==
    /\ uninstallPc = "lock"
    /\ lockOwner = "none"
    /\ lockOwner' = "this"
    /\ uninstallPc' = IF saveType # "" THEN "removeDeps" ELSE "unlock"
    /\ UNCHANGED <<pkgsToUninstall, saveType, ctx, projectFiles, newShr, steps>>
    /\ UNCHANGED <<pc, treeVars, linkVars, folderVars>>

\* The other process releases the lock of the store
OtherUnlocks ==
    /\ lockOwner = "other"
    /\ lockOwner' = "none"
    /\ UNCHANGED <<uninstallPc, pkgsToUninstall, saveType, ctx, projectFiles, newShr, steps>>
    /\ UNCHANGED <<pc, treeVars, linkVars, folderVars>>

\* uninstallInContext 41-48: removeDeps has rewritten package.json; the
\* dependencies the manifest no longer names leave ctx.shrinkwrap, and
\* pruneShrinkwrap is called
RemoveDepsDone ==
    /\ uninstallPc = "removeDeps"
    /\ LET pkg == RemoveDeps(ctx.pkg[1], pkgsToUninstall, saveType)
       IN  /\ projectFiles' = [projectFiles EXCEPT !.packageJson = << pkg >>]
           /\ ctx' = [ctx EXCEPT !.shrinkwrap = KeptDependencies(@, pkg)]
    /\ steps' = Append(steps, StepDone("removeDeps"))
    /\ uninstallPc' = AwaitAfter("removeDeps")
    /\ UNCHANGED <<pkgsToUninstall, saveType, lockOwner, newShr>>
    /\ UNCHANGED <<pc, treeVars, linkVars, folderVars>>

\* uninstallInContext 48-49
PruneShrinkwrapDone ==
    /\ uninstallPc = "pruneShrinkwrap"
    /\ newShr' = PruneShrinkwrap(ctx.shrinkwrap)
    /\ steps' = Append(steps, StepDone("pruneShrinkwrap"))
    /\ uninstallPc' = AwaitAfter("pruneShrinkwrap")
    /\ UNCHANGED <<pkgsToUninstall, saveType, ctx, lockOwner, projectFiles>>
    /\ UNCHANGED <<pc, treeVars, linkVars, folderVars>>

\* uninstallInContext 49-50
RemoveOrphanPkgsDone ==
    /\ uninstallPc = "removeOrphanPkgs"
    /\ projectFiles' = [projectFiles EXCEPT
                          !.installed = RemoveOrphanPkgs(@, ctx.privateShrinkwrap, newShr)]
    /\ steps' = Append(steps, StepDone("removeOrphanPkgs"))
    /\ uninstallPc' = AwaitAfter("removeOrphanPkgs")
    /\ UNCHANGED <<pkgsToUninstall, saveType, ctx, lockOwner, newShr>>
    /\ UNCHANGED <<pc, treeVars, linkVars, folderVars>>

\* uninstallInContext 50-52
SaveShrinkwrapDone ==
    /\ uninstallPc = "saveShrinkwrap"
    /\ projectFiles' = [projectFiles EXCEPT !.shrinkwrap = newShr]
    /\ steps' = Append(steps, StepDone("saveShrinkwrap"))
    /\ uninstallPc' = AwaitAfter("saveShrinkwrap")
    /\ UNCHANGED <<pkgsToUninstall, saveType, ctx, lockOwner, newShr>>
    /\ UNCHANGED <<pc, treeVars, linkVars, folderVars>>

\* The step uninstallInContext awaits is rejected: its promise is rejected
\* and lock goes on to release the lock
StepRejected ==
    /\ uninstallPc \in {"removeDeps", "pruneShrinkwrap", "removeOrphanPkgs", "saveShrinkwrap"}
    /\ uninstallPc' = "unlockRejected"
    /\ UNCHANGED <<pkgsToUninstall, saveType, ctx, lockOwner, projectFiles, newShr, steps>>
    /\ UNCHANGED <<pc, treeVars, linkVars, folderVars>>

\* lock releases the lock and settles as its callback did
Unlocked ==
    /\ uninstallPc \in {"unlock", "unlockRejected"}
    /\ lockOwner' = "none"
    /\ uninstallPc' = IF uninstallPc = "unlock" THEN "done" ELSE "failed"
    /\ UNCHANGED <<pkgsToUninstall, saveType, ctx, projectFiles, newShr, steps>>
    /\ UNCHANGED <<pc, treeVars, linkVars, folderVars>>

NextUninstall ==
    \/ GetContextDone
    \/ LockAcquired
    \/ OtherUnlocks
    \/ RemoveDepsDone
    \/ PruneShrinkwrapDone
    \/ RemoveOrphanPkgsDone
    \/ SaveShrinkwrapDone
    \/ StepRejected
    \/ Unlocked

SpecUninstall == InitUninstall /\ [][NextUninstall]_vars


(***************************************************************************)
(* Properties of tree construction                                         *)
(***************************************************************************)
TreeBuilt == pc \in {"resolve", "resolved"}

Installed(id) == id \in DOMAIN pkgsMap

DependsOn(p, d) == Installed(p) /\ d \in Range(pkgsMap[p].dependencies)

ChildrenOf(k) == Range(treeMap[k].children)

\* A depends on B, B on A, and the tree is built from root A
MutualFromRoot(A, B) ==
    /\ A # B
    /\ DependsOn(A, B)
    /\ DependsOn(B, A)
    /\ A \in Range(topPkgIds)

\* C3, as stated: for packages A and B depending on each other, in the tree
\* built from root A the node A/B has no child A, and the root node A has the
\* child A/B.
C3_BackEdgeCutAtB ==
    TreeBuilt =>
        \A A, B \in AllIds :
            MutualFromRoot(A, B) =>
                /\ <<A, B, A>> \notin ChildrenOf(<<A, B>>)
                /\ <<A, B>> \in ChildrenOf(<<A>>)

\* C3, amended: for packages A and B depending on each other, the tree built
\* from root A is finished with the root node A having the child A/B, the
\* node A/B having the child A/B/A, and the node A/B/A having no child B: the
\* back-edge is cut at the second occurrence of A, one level below B.
C3_BackEdgeCutBelowB ==
    TreeBuilt =>
        \A A, B \in AllIds :
            MutualFromRoot(A, B) =>
                /\ <<A, B>> \in ChildrenOf(<<A>>)
                /\ <<A, B, A>> \in ChildrenOf(<<A, B>>)
                /\ <<A, B, A, B>> \notin ChildrenOf(<<A, B, A>>)
                /\ <<A, B, A, B>> \notin DOMAIN treeMap

C3_Witness ==
    /\ TreeBuilt
    /\ \E A, B \in AllIds : MutualFromRoot(A, B) /\ <<A, B, A>> \in DOMAIN treeMap

AllPresent ==
    /\ \A p \in DOMAIN pkgsMap : Range(pkgsMap[p].dependencies) \subseteq DOMAIN pkgsMap
    /\ Range(topPkgIds) \subseteq DOMAIN pkgsMap

\* C4: when every referenced id is in the package map, tree construction
\* comes to its end, whatever cycles and self-dependencies the map holds: an
\* unfinished construction can always take its next step (it neither throws
\* nor descends beyond MaxDepth), and every step adds one new keypath, of
\* which there are finitely many.
C4_TreeTerminates ==
    /\ [](AllPresent => /\ pc # "threw"
                        /\ pc = "createTree" => ENABLED (CreateTreeStep \/ CreateTreeReturn))
    /\ [][AllPresent /\ pc = "createTree" /\ stack # <<>> =>
            /\ DOMAIN treeMap \subseteq DOMAIN treeMap'
            /\ Cardinality(DOMAIN treeMap') = Cardinality(DOMAIN treeMap) + 1
            /\ \A k \in DOMAIN treeMap' : Len(k) <= MaxDepth]_vars

\* some package depends on itself, some cycle is longer, and an edge was cut
C4_Witness ==
    /\ TreeBuilt
    /\ AllPresent
    /\ \E p \in DOMAIN pkgsMap : DependsOn(p, p)
    /\ \E p, q \in DOMAIN pkgsMap : p # q /\ DependsOn(p, q) /\ DependsOn(q, p)
    /\ \E k \in DOMAIN treeMap :
          Len(treeMap[k].children) < Len(pkgsMap[treeMap[k].id].dependencies)

(***************************************************************************)
(* Properties of peer resolution                                           *)
(***************************************************************************)
Resolved == pc = "resolved"

Count(seq, P(_)) == Cardinality({ i \in DOMAIN seq : P(seq[i]) })

Entries == Range(pkgsToLink)

Parent(k) == SubSeq(k, 1, Len(k) - 1)

LastNamed(keys, n) ==
    LET idx == { i \in DOMAIN keys : treeMap[keys[i]].name = n }
    IN  IF idx = {} THEN <<>>
        ELSE keys[CHOOSE i \in idx : \A j \in idx : j <= i]

\* The names a node can see: its children, itself, its ancestors and their
\* children, and the roots
RECURSIVE NamesInScope(_)
NamesInScope(k) ==
    { treeMap[c].name : c \in ChildrenOf(k) } \cup { treeMap[k].name }
        \cup (IF Len(k) = 1 THEN { treeMap[r].name : r \in Range(RootNodeIds) }
              ELSE NamesInScope(Parent(k)))

PeersNamed(e, n) ==
    { i \in DOMAIN e.node.resolvedPeers : treeMap[e.node.resolvedPeers[i]].name = n }

Declared(e) == Range(treeMap[e.key].peerDependencies)

ExpectedWarnings(w) ==
    Cardinality({ e \in Entries :
        /\ e.node.id = w.pkgId
        /\ <<w.peerName, w.range>> \in Declared(e)
        /\ IF w.kind = "none" THEN w.peerName \notin NamesInScope(e.key)
           ELSE /\ w.peerName \in NamesInScope(e.key)
                /\ \E i \in PeersNamed(e, w.peerName) :
                      ~Satisfies(treeMap[e.node.resolvedPeers[i]].version, w.range) })

\* C8: peer resolution always yields a result, and for each declared peer of
\* a node: with no package of that name in scope the resolved peers hold
\* none of that name and one "none was installed" warning is logged; with one
\* in scope the resolved peers hold exactly one of that name, with one
\* "version ... was installed" warning when its version is outside the range
\* and no warning when inside.
C8_PeersWarnOnly ==
    Resolved =>
        /\ \A e \in Entries : \A d \in Declared(e) :
              IF d[1] \in NamesInScope(e.key)
              THEN Cardinality(PeersNamed(e, d[1])) = 1
              ELSE PeersNamed(e, d[1]) = {}
        /\ \A e \in Entries :
              Len(e.node.resolvedPeers) <= Len(treeMap[e.key].peerDependencies)
        /\ \A i \in DOMAIN warnings :
              Count(warnings, LAMBDA w : w = warnings[i]) = ExpectedWarnings(warnings[i])
        /\ \A e \in Entries : \A d \in Declared(e) : \A kind \in {"none", "version"} :
              LET w == [ kind |-> kind, pkgId |-> e.node.id, peerName |-> d[1], range |-> d[2] ]
              IN  Count(warnings, LAMBDA x : x = w) = ExpectedWarnings(w)

\* a node with one peer that is absent and one that is present in a version
\* outside its range
C8_Witness ==
    /\ Resolved
    /\ \E e \in Entries : \E d1, d2 \in Declared(e) :
          /\ d1[1] \notin NamesInScope(e.key)
          /\ \E i \in PeersNamed(e, d2[1]) :
                ~Satisfies(treeMap[e.node.resolvedPeers[i]].version, d2[2])
          /\ Len(warnings) >= 2

\* What a name resolves to for a node: its last child of that name, else the
\* node itself if it has the name, else what it resolves to for the parent;
\* for a root node, in the end, the last root of that name.
RECURSIVE ScopeLookup(_, _)
ScopeLookup(k, n) ==
    IF LastNamed(treeMap[k].children, n) # <<>> THEN LastNamed(treeMap[k].children, n)
    ELSE IF treeMap[k].name = n THEN k
    ELSE IF Len(k) = 1 THEN LastNamed(RootNodeIds, n)
    ELSE ScopeLookup(Parent(k), n)

\* C9: the resolved peers of every node are, in the order of its declared
\* peers, what each declared name resolves to in the overlay
\* ancestors < self < children, the names that resolve to nothing left out.
C9_ScopeOverlay ==
    Resolved =>
        \A e \in Entries :
            LET decl == treeMap[e.key].peerDependencies
                found == SelectSeq(decl, LAMBDA d : ScopeLookup(e.key, d[1]) # <<>>)
            IN  e.node.resolvedPeers = [ i \in DOMAIN found |-> ScopeLookup(e.key, found[i][1]) ]

\* a chain of three levels: the deepest node's peer has the name of both its
\* parent and its grandparent, and resolves to the parent
C9_Witness ==
    /\ Resolved
    /\ \E e \in Entries :
          /\ Len(e.key) = 3
          /\ treeMap[<<e.key[1]>>].name = treeMap[Parent(e.key)].name
          /\ e.key[1] # e.key[2]
          /\ treeMap[e.key].name # treeMap[Parent(e.key)].name
          /\ e.node.resolvedPeers = << Parent(e.key) >>

(***************************************************************************)
(* Properties of the link operation                                        *)
(***************************************************************************)
Started(t) == t.pc # "queued"

TasksOf(n) == { i \in DOMAIN tasks : tasks[i].phase = n }

AllDone(n) == \A i \in TasksOf(n) : tasks[i].pc = "done"

Nodes == { e.node : e \in Range(pkgsToLink) }

\* C1: while link runs, once a task of phase 2 or 3 has started, phase 1 has
\* a task for every hardlink target and all of them have completed; and once
\* the root symlinks or the root bin linking have started, every task of
\* phase 3 (and so of phases 1 and 2) has completed.
C1_PhaseOrder ==
    Linking =>
      /\ (\E i \in TasksOf(2) \cup TasksOf(3) : Started(tasks[i]))
            => /\ { NodeOf(tasks[i].key).hardlinkedLocation : i \in TasksOf(1) }
                    = { n.hardlinkedLocation : n \in Nodes }
               /\ AllDone(1)
      /\ (\E i \in TasksOf(3) : Started(tasks[i])) => AllDone(2)
      /\ (TasksOf(4) \cup TasksOf(5) # {})
            => /\ Len(Deps(pkgsToLink)) = Cardinality(TasksOf(3))
               /\ AllDone(1) /\ AllDone(2) /\ AllDone(3)

\* A peer symlink of phase 3 is in progress after three hardlink tasks
C1_Witness ==
    /\ pc = "phase3"
    /\ Cardinality(TasksOf(1)) >= 3
    /\ \E i \in TasksOf(3) : tasks[i].pc = "symlinks" /\ tasks[i].pend # {}

\* The paths a task writes: the hardlink target (phase 1), the symlinks in a
\* module directory (phase 2), the peer symlinks and the .bin directory
\* (phase 3)
WriteDests(t) ==
    LET node == NodeOf(t.key)
    IN  CASE t.phase = 1 -> { Deref(disk, node.hardlinkedLocation) }
          [] t.phase = 2 -> { SymlinkOf(t, j).dest : j \in DOMAIN node.children }
          [] t.phase = 3 -> { SymlinkOf(t, j).dest : j \in DOMAIN node.resolvedPeers }
                               \cup { node.hardlinkedLocation \o <<"node_modules", ".bin">> }
          [] OTHER       -> {}

\* C2: no two tasks of the same phase (1, 2 or 3) write the same path, and
\* every hardlink target of the resolved map has exactly one phase-1 task,
\* however many nodes share it.
C2_NoSharedDestination ==
    Linking =>
      /\ \A i, j \in DOMAIN tasks :
            (i # j /\ tasks[i].phase = tasks[j].phase /\ tasks[i].phase \in 1..3)
               => WriteDests(tasks[i]) \cap WriteDests(tasks[j]) = {}
      /\ \A n \in Nodes :
            Cardinality({ i \in TasksOf(1) :
                            NodeOf(tasks[i].key).hardlinkedLocation = n.hardlinkedLocation }) = 1

\* Two nodes share a hardlink target and the tasks of phases 1 to 3 exist
C2_Witness ==
    /\ pc = "phase3"
    /\ \E e1, e2 \in Range(pkgsToLink) :
          /\ e1.key # e2.key
          /\ e1.node.hardlinkedLocation = e2.node.hardlinkedLocation
    /\ Cardinality(TasksOf(2)) >= 2

StoreUnchanged == \A id \in DOMAIN storeGen : storeGen[id] = 0

\* C7: in a run after a successful run on the same input, with force unset,
\* no package freshly fetched and the store as it was, no task starts a
\* recursive hardlink and no relinking is logged: every phase-1 task is
\* waiting, checking, has completed or was rejected.
C7_SecondRunSkips ==
    (run >= 2 /\ ~opts.force /\ ~sawFresh /\ StoreUnchanged) =>
      /\ ~didLink
      /\ infoLog = {}
      /\ \A i \in TasksOf(1) : tasks[i].pc \in {"fetching", "exists", "stat", "done", "failed"}

\* The second run has returned, having checked at least three targets
C7_Witness ==
    /\ run = 2
    /\ pc = "returned"
    /\ ~opts.force /\ ~sawFresh /\ StoreUnchanged
    /\ Cardinality(TasksOf(1)) >= 3
    /\ \A n \in Nodes : ManifestLinkedToStore(disk, storeGen, n.hardlinkedLocation, n.id)

\* C10: after a successful run every node with a peer module directory has,
\* for each of its resolved peers, the symlink <peerModules>/<peer name> to
\* that peer's hardlink target.
C10_PeerSymlinksPerNode ==
    pc = "returned" =>
      \A n \in Nodes :
         n.peerModules # NoPath =>
            \A j \in DOMAIN n.resolvedPeers :
               LET peer == NodeOf(n.resolvedPeers[j])
                   dest == PathJoin(n.peerModules, peer.name)
               IN  /\ dest \in DOMAIN disk
                   /\ disk[dest] = SymlinkEntry(peer.hardlinkedLocation)

(***************************************************************************)
(* Properties of the limiter                                               *)
(***************************************************************************)
\* The tasks of linkPkg, linkIndependentModules and linkModules that have
\* started and have not settled
InFlight ==
    { i \in DOMAIN tasks : tasks[i].phase \in 1..3 /\ Started(tasks[i]) /\ ~Settled(tasks[i]) }

\* C5: at most 16 of the tasks of phases 1 to 3 are in flight, they are the
\* tasks the limiter counts, and a task leaves the queue only in a step in
\* which a task in flight settles.
C5_AtMost16InFlight ==
    /\ [](Cardinality(InFlight) <= 16 /\ activeCount = Cardinality(InFlight))
    /\ [][ \A i \in DOMAIN tasks :
              (tasks[i].pc = "queued" /\ i \in DOMAIN tasks' /\ tasks'[i].pc # "queued")
                 => \E k \in InFlight : Settled(tasks'[k]) ]_vars

\* Sixteen tasks are in flight, one that had to wait among them, and one is
\* still queued
C5_Witness ==
    /\ Cardinality(InFlight) = 16
    /\ \E i \in InFlight : i > 16
    /\ \E i \in DOMAIN tasks : tasks[i].pc = "queued"

\* The filesystem operations a task has in progress
FsOps(t) ==
    CASE t.pc \in {"stat", "symlinks"}                         -> Cardinality(t.pend)
      [] t.pc = "failed"                                       -> Cardinality(t.pend)
      [] t.pc \in {"exists", "linkDir", "bins1", "bins2", "bins3"} -> 1
      [] OTHER                                                 -> 0

RECURSIVE SumFsOps(_)
SumFsOps(ts) == IF ts = <<>> THEN 0 ELSE FsOps(Head(ts)) + SumFsOps(Tail(ts))

\* C6: at most 16 filesystem operations are in progress at the same time.
C6_AtMost16FsOps == SumFsOps(tasks) <= 16

(***************************************************************************)
(* Properties of the children of a node                                    *)
(***************************************************************************)
\* The ids p, d follow each other in the keypath
AdjacentIn(p, d, keypath) ==
    \E i \in 1..(Len(keypath) - 1) : keypath[i] = p /\ keypath[i + 1] = d

Ancestors(k) == SubSeq(k, 1, Len(k) - 1)

EntriesAt(k) == { i \in DOMAIN pkgsToLink : pkgsToLink[i].key = k }

\* C11: in the resolved tree, a node at keypath k of package p has the child
\* k/d for a dependency d of p exactly when (p, d) are not adjacent in the
\* keypath of the node's ancestors; it has no other children; every child is
\* a node of the tree; every node of the tree has one resolved entry of its
\* own.  So a package two top packages depend on is at both keypaths.
C11_ChildrenExactlyUncut ==
    Resolved =>
      /\ \A k \in DOMAIN treeMap :
            LET p == k[Len(k)]
                deps == pkgsMap[p].dependencies
            IN  /\ treeMap[k].keypathId = k
                /\ \A d \in Range(deps) :
                      Append(k, d) \in ChildrenOf(k) <=> ~AdjacentIn(p, d, Ancestors(k))
                /\ treeMap[k].children =
                      SelectSeq([ i \in DOMAIN deps |-> Append(k, deps[i]) ],
                                LAMBDA c : c \in ChildrenOf(k))
                /\ ChildrenOf(k) \subseteq DOMAIN treeMap
                /\ Cardinality(EntriesAt(k)) = 1
      /\ \A A, C \in Range(topPkgIds), B \in DOMAIN pkgsMap :
            (A # C /\ DependsOn(A, B) /\ DependsOn(C, B))
               => /\ {<<A, B>>, <<C, B>>} \subseteq DOMAIN treeMap
                  /\ EntriesAt(<<A, B>>) # EntriesAt(<<C, B>>)
                  /\ EntriesAt(<<A, B>>) # {} /\ EntriesAt(<<C, B>>) # {}

\* Two top packages depend on one package, which is at both keypaths, and
\* somewhere an edge of a cycle was cut
C11_Witness ==
    /\ Resolved
    /\ \E A, C \in Range(topPkgIds), B \in DOMAIN pkgsMap :
          /\ A # C /\ B \notin {A, C}
          /\ {<<A, B>>, <<C, B>>} \subseteq DOMAIN treeMap
    /\ \E k \in DOMAIN treeMap :
          Len(treeMap[k].children) < Len(pkgsMap[treeMap[k].id].dependencies)

(***************************************************************************)
(* Properties of a failing link                                            *)
(***************************************************************************)
\* The ids the installable top packages reach that are not installed
MissingIds ==
    ReachFrom([ x \in DOMAIN installedPkgs |-> Range(installedPkgs[x].dependencies) ],
              Range(InstallableIds(topPkgs)))
       \ DOMAIN installedPkgs

\* C12: when a top package or a package it reaches refers to an id that is
\* not installed, a call of link is building the tree, with a step left to
\* take, or has thrown; it has no resolved map, has created no task and the
\* module tree is untouched.
C12_MissingIdFailsBeforeLinking ==
    (run >= 1 /\ MissingIds # {}) =>
      /\ pc \in {"createTree", "threw"}
      /\ pc = "createTree" => (stack # <<>> /\ ENABLED CreateTreeStep)
      /\ pkgsToLink = <<>>
      /\ tasks = <<>>
      /\ disk = <<>>

\* link has thrown on a missing dependency after it built a part of the tree
C12_Witness ==
    /\ pc = "threw"
    /\ MissingIds # {}
    /\ MissingIds \cap Range(InstallableIds(topPkgs)) = {}
    /\ Cardinality(DOMAIN treeMap) >= 2

\* The tasks that have been rejected
Failed == { i \in DOMAIN tasks : tasks[i].pc = "failed" }

ShadowFolderName(node) == CreatePeersFolderName(Props(node.resolvedPeers, treeMap))

\* C14: for every resolved node, modules is node_modules under the local
\* location; peerModules is present exactly when the package declares a
\* peer, resolved or not, and is then node_modules under the shadow folder,
\* one directory of the local location (none when the folder name is empty);
\* hardlinkedLocation is the node's name under peerModules if present, else
\* under modules.
C14_Layout ==
    Resolved =>
      \A i \in DOMAIN pkgsToLink :
        LET node == pkgsToLink[i].node
            pkgNode == treeMap[pkgsToLink[i].key]
            local == pkgNode.localLocation
            folder == ShadowFolderName(node)
        IN  /\ node.modules = local \o <<"node_modules">>
            /\ (node.peerModules # NoPath) <=> (pkgNode.peerDependencies # <<>>)
            /\ node.peerModules # NoPath =>
                 node.peerModules =
                     local \o (IF folder = <<>> THEN <<>> ELSE <<JoinChars(folder)>>)
                           \o <<"node_modules">>
            /\ node.hardlinkedLocation =
                 PathJoin(IF node.peerModules # NoPath THEN node.peerModules
                          ELSE node.modules, node.name)

\* One node declares peers of which none is resolved, another has resolved a
\* peer of a scoped name, and a third declares none
C14_Witness ==
    /\ Resolved
    /\ \E i \in DOMAIN pkgsToLink :
         /\ treeMap[pkgsToLink[i].key].peerDependencies # <<>>
         /\ pkgsToLink[i].node.resolvedPeers = <<>>
         /\ pkgsToLink[i].node.peerModules = pkgsToLink[i].node.modules
    /\ \E i \in DOMAIN pkgsToLink :
         \E j \in DOMAIN pkgsToLink[i].node.resolvedPeers :
            treeMap[pkgsToLink[i].node.resolvedPeers[j]].name = <<"s", "/", "c">>
    /\ \E i \in DOMAIN pkgsToLink : pkgsToLink[i].node.peerModules = NoPath

(***************************************************************************)
(* Properties of the shadow-folder name                                    *)
(***************************************************************************)
RECURSIVE ReplaceAll(_, _, _)
ReplaceAll(cs, from, to) ==
    IF cs = <<>> THEN <<>>
    ELSE <<(IF Head(cs) = from THEN to ELSE Head(cs))>> \o ReplaceAll(Tail(cs), from, to)

\* name@version of a peer, '/' in the name replaced by '!'
Token(peer) == ReplaceAll(peer.name, "/", "!") \o <<"@">> \o peer.version

Tokens(peers) == { Token(peers[i]) : i \in DOMAIN peers }

\* The sequences that hold every element of S once
Orderings(S) == { s \in [1..Cardinality(S) -> S] : Range(s) = S }

Ascending(s) == \A i, j \in DOMAIN s : i < j => StrLess(s[i], s[j])

\* The peers in another order
Permuted(peers, q) == [ i \in DOMAIN peers |-> peers[q[i]] ]

\* C15: the name returned is the peers' tokens in ascending order joined by
\* '+'; the peers in any other order, and any other peers with the same
\* tokens, give the same name; a/b@1.0.0 and c@2.0.0 give a!b@1.0.0+c@2.0.0.
C15_FolderNameOfTokenSet ==
    folderName # <<>> =>
      /\ \E s \in Orderings(Tokens(folderPeers)) :
            Ascending(s) /\ folderName[1] = JoinWith(s, "+")
      /\ \A q \in Orderings(DOMAIN folderPeers) :
            CreatePeersFolderName(Permuted(folderPeers, q)) = folderName[1]
      /\ (Tokens(folderPeers) = { <<"a", "!", "b", "@", "1", ".", "0", ".", "0">>,
                                  <<"c", "@", "2", ".", "0", ".", "0">> })
            => JoinChars(folderName[1]) = "a!b@1.0.0+c@2.0.0"

\* The name of c@2.0.0 and a/b@1.0.0, given in this order
C15_Witness ==
    /\ folderPeers = << [ name |-> <<"c">>, version |-> <<"2", ".", "0", ".", "0">> ],
                        [ name |-> <<"a", "/", "b">>, version |-> <<"1", ".", "0", ".", "0">> ] >>
    /\ folderName # <<>>

(***************************************************************************)
(* Properties of linkPkg                                                   *)
(***************************************************************************)
\* Where task i stood before a step; a task the step creates was not started
PcBefore(i) == IF i \in DOMAIN tasks THEN tasks[i].pc ELSE "queued"

\* The hardlinked locations whose task a step takes from the inode
\* comparison to linkDir
Relinked ==
    { NodeOf(tasks'[i].key).hardlinkedLocation :
        i \in { k \in DOMAIN tasks' : /\ tasks'[k].phase = 1
                                      /\ PcBefore(k) = "stat"
                                      /\ tasks'[k].pc = "linkDir" } }

LinkPkgStep(i) ==
    LET node == NodeOf(tasks'[i].key)
        before == PcBefore(i)
        after == tasks'[i].pc
        target == node.hardlinkedLocation
        newlyFetched == fetching'[node.fetchingFiles]
    IN  /\ (before \in {"queued", "fetching"} /\ after \notin {"queued", "fetching"}) =>
              /\ newlyFetched # "pending"
              /\ after = IF newlyFetched = "rejected" THEN "failed"
                         ELSE IF newlyFetched = "fresh" \/ opts.force THEN "linkDir"
                         ELSE "exists"
        /\ (before = "exists" /\ after # "exists") =>
              after = IF ManifestExists(disk, target) THEN "stat" ELSE "linkDir"
        /\ (before = "stat" /\ after # "stat") =>
              \/ after = "failed"
              \/ after = IF ManifestLinkedToStore(disk, storeGen, target, node.id)
                         THEN "done" ELSE "linkDir"
        /\ (before # "linkDir" /\ after = "linkDir") =>
              before \in {"queued", "fetching", "exists", "stat"}
        /\ (before # "done" /\ after = "done") => before \in {"stat", "linkDir"}

\* C16: a task of phase 1 leaves its wait for fetchingFiles only once the
\* promise has settled; it then calls linkDir exactly when the package was
\* freshly fetched, or force is set, or the target has no manifest, or the
\* target's manifest is another file than the store's, and is done without
\* linkDir otherwise; a location is logged as relinked only by a step that
\* finds the manifests to differ, and every such step logs it.
C16_LinkPkgDecides ==
    [][ /\ \A i \in DOMAIN tasks' : tasks'[i].phase = 1 => LinkPkgStep(i)
        /\ infoLog' \subseteq infoLog \cup Relinked
        /\ Relinked \subseteq infoLog' ]_vars

\* A package fetched before and linked without force is linked again, and
\* logged, because its manifest in the store is another file by now
C16_Witness ==
    /\ run = 2
    /\ ~opts.force
    /\ \E i \in DOMAIN tasks :
          /\ tasks[i].phase = 1
          /\ tasks[i].pc = "linkDir"
          /\ fetching[NodeOf(tasks[i].key).fetchingFiles] = "cached"
          /\ NodeOf(tasks[i].key).hardlinkedLocation \in infoLog

(***************************************************************************)
(* Properties of the nodes that stand for a module directory               *)
(***************************************************************************)
\* The ids the roots reach
ReachableIds ==
    ReachFrom([ x \in DOMAIN pkgsMap |-> Range(pkgsMap[x].dependencies) ], Range(topPkgIds))

\* The keys phase 2 works on that are nodes of package id
RepresentativesOf(id) ==
    { k \in Range(DepsByModules(pkgsToLink)) : treeMap[k].id = id }

\* C17: in the resolved tree every package the roots reach has one node
\* among those phase 2 works on; no edge of that node is cut: it has the
\* child k/d for every dependency d of the package, in order, and its task
\* makes, for every d, the symlink from d's name in the node's modules
\* directory to the child's hardlinked location.
C17_RepresentativeUncut ==
    Resolved =>
      \A id \in ReachableIds :
        /\ Cardinality(RepresentativesOf(id)) = 1
        /\ \A k \in RepresentativesOf(id) :
             LET deps == pkgsMap[id].dependencies
                 node == NodeOf(k)
             IN  /\ node.children = [ j \in DOMAIN deps |-> Append(k, deps[j]) ]
                 /\ node.modules = BaseNodeModules \o <<"." \o id, "node_modules">>
                 /\ \A j \in DOMAIN deps :
                      SymlinkOf(NewTask(2, k), j) =
                        [ dest   |-> PathJoin(node.modules, PkgName(deps[j])),
                          target |-> NodeOf(Append(k, deps[j])).hardlinkedLocation ]

\* A package has a node with a cut edge, and another node that stands for
\* its modules directory
C17_Witness ==
    /\ Resolved
    /\ \E k \in DOMAIN treeMap :
          /\ Len(treeMap[k].children) < Len(pkgsMap[treeMap[k].id].dependencies)
          /\ \E r \in RepresentativesOf(treeMap[k].id) :
                r # k /\ Len(treeMap[r].children) >= 2

(***************************************************************************)
(* Properties of the symlinks                                              *)
(***************************************************************************)
\* The symlinks a task of phase 2, 3 or 4 makes
SymlinkOps(t) ==
    LET node == NodeOf(t.key)
    IN  CASE t.phase = 2 -> DOMAIN node.children
          [] t.phase = 3 -> DOMAIN node.resolvedPeers
          [] OTHER       -> {1}

HardlinkTargets == { n.hardlinkedLocation : n \in Nodes }

\* C18: no symlink that a started task of phase 2, 3 or 4 makes has a
\* destination that is the hardlinked location of a node.
C18_NoSymlinkOntoHardlinkTarget ==
    \A i \in DOMAIN tasks :
       (tasks[i].phase \in {2, 3, 4} /\ Started(tasks[i])) =>
          \A j \in SymlinkOps(tasks[i]) :
             SymlinkOf(tasks[i], j).dest \notin HardlinkTargets

(***************************************************************************)
(* Progress of the link operation                                          *)
(***************************************************************************)
\* Task i waits for something that is under way: a fetchingFiles promise
\* that is pending, or a filesystem operation it has called
Outstanding(i) ==
    CASE tasks[i].pc = "fetching" ->
             fetching[NodeOf(tasks[i].key).fetchingFiles] = "pending"
      [] tasks[i].pc \in {"stat", "symlinks"} -> tasks[i].pend # {}
      [] OTHER -> tasks[i].pc \in {"exists", "linkDir", "bins1", "bins2", "bins3"}

\* How far link is
PcRank(p) ==
    CASE p = "createTree" -> 1 [] p = "resolve" -> 2 [] p = "resolved" -> 3
      [] p = "phase1" -> 4 [] p = "phase2" -> 5 [] p = "phase3" -> 6
      [] p = "phase4" -> 7 [] p = "phase5" -> 8 [] p = "returned" -> 9
      [] OTHER -> 0

\* How far a task is: every operation that completes takes it further
TaskRank(t) ==
    LET ops == Cardinality(SymlinkOps(t))
    IN  CASE t.pc = "queued"   -> 0
          [] t.pc = "fetching" -> 1
          [] t.pc = "exists"   -> 2
          [] t.pc = "stat"     -> 3 + (2 - Cardinality(t.pend))
          [] t.pc = "linkDir"  -> 6
          [] t.pc = "symlinks" -> 1 + (ops - Cardinality(t.pend))
          [] t.pc = "bins1"    -> ops + 2
          [] t.pc = "bins2"    -> ops + 3
          [] t.pc = "bins3"    -> ops + 4
          [] OTHER             -> ops + 7

RECURSIVE SumRanks(_)
SumRanks(ts) == IF ts = <<>> THEN 0 ELSE TaskRank(Head(ts)) + SumRanks(Tail(ts))

\* The most tasks a call creates: three for a node, one for a root, and one
TaskBound == 3 * Len(pkgsToLink) + Len(topPkgIds) + 1

\* C19: when every fetchingFiles promise resolves and no filesystem
\* operation fails, a call of link comes to return.  It is never rejected;
\* while it builds the tree its next step can be taken; while it waits in a
\* phase, some task waits for a pending promise or for an operation under
\* way; a task waits in the limiter's queue only while LimitLinking tasks
\* are in flight; and every step of the call takes link to a later position,
\* creates a task or takes a task further, of which a call has boundedly
\* many.
C19_LinkReturns ==
    /\ [](/\ pc \notin {"threw", "failed"}
          /\ pc = "createTree" => ENABLED (CreateTreeStep \/ CreateTreeReturn)
          /\ pc \in {"phase1", "phase2", "phase3", "phase4", "phase5"} =>
                \E i \in DOMAIN tasks : Outstanding(i)
          /\ (\E i \in DOMAIN tasks : tasks[i].pc = "queued") =>
                Cardinality({ i \in DOMAIN tasks : Outstanding(i) }) = LimitLinking
          /\ \A i \in DOMAIN tasks : ~Settled(tasks[i]) /\ tasks[i].pc # "queued"
                                        => Outstanding(i)
          /\ Len(tasks) <= TaskBound)
    /\ [][ (run' = run) =>
              \/ PcRank(pc') > PcRank(pc)
              \/ /\ pc' = pc
                 /\ pc = "createTree"
                 /\ Len(stack') < Len(stack) \/ Cardinality(DOMAIN treeMap') > Cardinality(DOMAIN treeMap)
              \/ /\ pc' = pc
                 /\ Len(tasks') >= Len(tasks)
                 /\ SumRanks(tasks') > SumRanks(tasks) ]_vars

\* A call has returned whose first phase had more tasks than the limiter
\* runs at once
C19_Witness ==
    /\ pc = "returned"
    /\ Cardinality(TasksOf(1)) > LimitLinking
    /\ \A i \in DOMAIN tasks : tasks[i].pc = "done"

(***************************************************************************)
(* Properties of uninstallCmd                                              *)
(***************************************************************************)
UninstallOrder == << "removeDeps", "pruneShrinkwrap", "removeOrphanPkgs", "saveShrinkwrap" >>

\* C20: every step of uninstallInContext that has completed did so while
\* this process held the lock of the store, and the completed steps are, in
\* this order, the manifest rewrite, the shrinkwrap pruning, the removal of
\* the orphans and the saving of the shrinkwrap, or the first of them; the
\* project's files change only in a step that starts and ends with the lock
\* held; without a package.json uninstallCmd throws or is about to, never
\* holds the lock, has completed no step and leaves the files as they are.
C20_UninstallUnderLock ==
    /\ [](/\ Len(steps) <= Len(UninstallOrder)
          /\ \A i \in DOMAIN steps : /\ steps[i].what = UninstallOrder[i]
                                     /\ steps[i].lockOwner = "this"
          /\ projectFiles.packageJson = <<>> =>
                /\ uninstallPc \in {"getContext", "threw"}
                /\ lockOwner # "this"
                /\ steps = <<>>
          /\ uninstallPc = "done" /\ saveType # "" => Len(steps) = Len(UninstallOrder))
    /\ [][ /\ projectFiles' # projectFiles => (lockOwner = "this" /\ lockOwner' = "this")
           /\ projectFiles.packageJson = <<>> => projectFiles' = projectFiles ]_vars

\* An uninstall that had to wait for the lock has removed a dependency, an
\* orphan with it, and has released the lock
C20_Witness ==
    /\ uninstallPc = "done"
    /\ Len(steps) = 4
    /\ lockOwner = "none"
    /\ projectFiles.installed # projectFiles.privateShrinkwrap.packages
    /\ projectFiles.shrinkwrap # projectFiles.privateShrinkwrap

\* Without a package.json uninstallCmd has thrown
C20_WitnessNoManifest ==
    /\ uninstallPc = "threw"
    /\ projectFiles.packageJson = <<>>

====
